---- MODULE Spec2Model ----
(***************************************************************************)
(* Model of the e-Dziennik Serwisowy backend (src/app.py): the request     *)
(* handlers for accounts and sessions, service schedules, vehicles,        *)
(* service entries, reminders, fuel logs, trips and the statistics read,   *)
(* over the relational store declared by the DDL.                          *)
(*                                                                         *)
(* A JSON value of a request body is a record [t, v]: t is the kind of     *)
(* value and v its integer content.                                        *)
(*   absent   the key is not in the body                                   *)
(*   null     JSON null                                                    *)
(*   int      a JSON integer v                                             *)
(*   numstr   a string holding the decimal digits of v, such as "12"       *)
(*   emptystr the string ""                                                *)
(*   blankstr a string of whitespace only                                  *)
(*   text     any other string (v names it), such as "abc"                 *)
(*   padtext  the text v with surrounding whitespace                       *)
(*   uptext   the text v spelled in capital letters                        *)
(*   paduptext  the same with surrounding whitespace                       *)
(*   datestr  a string "YYYY-MM-DD" with v = YYYY*10000 + MM*100 + DD      *)
(* A stored column holds null, int, text-like values or a date             *)
(* ([t |-> "date"], same encoding of v).                                   *)
(***************************************************************************)
EXTENDS Integers, Sequences, FiniteSets, TLC

VARIABLES
    session,    \* session["user_id"] of the client, NoUser when not logged in
    vehicles,   \* table vehicles
    entries,    \* table service_entries
    reminders,  \* table reminders
    schedules,  \* table service_schedules
    fuel_logs,  \* table fuel_logs
    trips,      \* table trips
    uploads,    \* files saved under UPLOAD_DIR
    users,      \* table users
    stats_run,  \* the statistics read in flight: statements run so far and their results
    nextId,     \* next BIGSERIAL value of each table
    steps,      \* number of requests served so far
    req,        \* the request served last
    resp        \* the response to it

vars == <<session, vehicles, entries, reminders, schedules, fuel_logs, trips, uploads,
          users, stats_run, nextId, steps, req, resp>>

store == <<vehicles, entries, reminders, schedules, fuel_logs, trips, uploads, users,
           nextId>>

(***************************************************************************)
(* Bounds of the model.                                                    *)
(***************************************************************************)
MaxSteps == 2

MaxRows == 1

MaxEntries == 2

MaxUsers == 4

NoUser == 0

\* no statistics read in flight
NoRun == << >>

Users == {1, 2}

(***************************************************************************)
(* JSON values and the Python operations the handlers apply to them.       *)
(***************************************************************************)
V(t, v) == [t |-> t, v |-> v]

Absent == V("absent", 0)

Null == V("null", 0)

EmptyStr == V("emptystr", 0)

BlankStr == V("blankstr", 0)

IntV(n) == V("int", n)

NumStr(n) == V("numstr", n)

Text(n) == V("text", n)

PadText(n) == V("padtext", n)

\* the text n spelled with capital letters, and the same with blanks around it
UpText(n) == V("uptext", n)

PadUpText(n) == V("paduptext", n)

DateStr(y, m, d) == V("datestr", y * 10000 + m * 100 + d)

Min(a, b) == IF a <= b THEN a ELSE b

\* d.get(key): None for a missing key as for a null value
Get(x) == IF x.t = "absent" THEN Null ELSE x

\* key in d
Has(x) == x.t # "absent"

\* Python truth value: None, 0 and "" are false
Truthy(x) == /\ x.t \notin {"absent", "null", "emptystr"}
             /\ ~(x.t = "int" /\ x.v = 0)

\* x or y
Or(x, y) == IF Truthy(x) THEN x ELSE y

\* int(x) succeeds on an integer and on a string of digits
IntOk(x) == x.t \in {"int", "numstr"}

IntOf(x) == x.v

\* str.strip()
Strip(x) == CASE x.t = "blankstr" -> EmptyStr
              [] x.t = "padtext" -> Text(x.v)
              [] x.t = "paduptext" -> UpText(x.v)
              [] OTHER -> x

\* the values str methods exist on; calling one on another value raises
IsStr(x) == x.t \in {"emptystr", "blankstr", "text", "padtext", "uptext", "paduptext",
                     "numstr", "datestr"}

\* str.lower()
Lower(x) == CASE x.t = "uptext" -> Text(x.v)
              [] x.t = "paduptext" -> PadText(x.v)
              [] OTHER -> x

\* werkzeug.security: the hash of a password, and the test of a password against it
generate_password_hash(p) == V("pwhash", p)

check_password_hash(h, p) == h.t = "pwhash" /\ h.v = p

YearOf(n) == n \div 10000

MonthOf(n) == (n \div 100) % 100

DayOf(n) == n % 100

\* calendar.isleap, as used by datetime.date to validate a day
PyIsLeap(y) == y % 4 = 0 /\ (y % 100 # 0 \/ y % 400 = 0)

PyDaysInMonth(y, m) ==
    IF m = 2 THEN (IF PyIsLeap(y) THEN 29 ELSE 28)
    ELSE IF m \in {4, 6, 9, 11} THEN 30 ELSE 31

\* datetime.date(year, month, day) does not raise ValueError
DateCtorOk(y, m, d) ==
    /\ y >= 1 /\ y <= 9999
    /\ m >= 1 /\ m <= 12
    /\ d >= 1 /\ d <= PyDaysInMonth(y, m)

\* date.fromisoformat(x) does not raise
FromIsoOk(x) ==
    /\ x.t = "datestr"
    /\ DateCtorOk(YearOf(x.v), MonthOf(x.v), DayOf(x.v))

\* date(...).isoformat()
IsoFormat(y, m, d) == DateStr(y, m, d)

(***************************************************************************)
(* The next-due derivation of the schedule handlers.                       *)
(***************************************************************************)
\* MonthDays with the century exception of the leap rule left out
MonthDaysEveryFourth(year) ==
    << 31,
       IF year % 4 = 0 THEN 29 ELSE 28,
       31, 30, 31, 30, 31, 31, 30, 31, 30, 31 >>

\* the month lengths the handlers index with month - 1
MonthDays(year) ==
    << 31,
       IF year % 4 = 0 /\ (year % 100 # 0 \/ year % 400 = 0) THEN 29 ELSE 28,
       31, 30, 31, 30, 31, 31, 30, 31, 30, 31 >>

\* the body of the try block: None when fromisoformat or date() raises
ClampedDate(last_date, interval_m) ==
    IF ~FromIsoOk(last_date) THEN Null
    ELSE LET base   == last_date.v
             month0 == MonthOf(base) - 1 + interval_m
             year   == YearOf(base) + (month0 \div 12)
             month  == (month0 % 12) + 1
             day    == Min(DayOf(base), MonthDays(year)[month])
         IN  IF DateCtorOk(year, month, day)
             THEN IsoFormat(year, month, day)
             ELSE Null

\* int(d.get(key) or 0) raises ValueError
IntervalRaises(x) == ~IntOk(Or(Get(x), IntV(0)))

\* int(d.get(key) or 0) or None
IntervalOrNone(x) ==
    LET n == IntOf(Or(Get(x), IntV(0)))
    IN  IF n = 0 THEN Null ELSE IntV(n)

\* AddNextDate letting a supplied next_due_date win, as update_schedule does
AddNextDateHonouringOverride(d) ==
    LET last_date  == Get(d.last_service_date)
        interval_m == IntervalOrNone(d.interval_months)
        next_date  == Get(d.next_due_date)
    IN  IF Truthy(next_date) THEN next_date
        ELSE IF Truthy(last_date) /\ Truthy(interval_m)
        THEN ClampedDate(last_date, IntOf(interval_m))
        ELSE Null

\* next_date of add_schedule
AddNextDate(d) ==
    LET last_date  == Get(d.last_service_date)
        interval_m == IntervalOrNone(d.interval_months)
    IN  IF Truthy(last_date) /\ Truthy(interval_m)
        THEN ClampedDate(last_date, IntOf(interval_m))
        ELSE Null

\* next_km of add_schedule
AddNextKm(d) ==
    LET last_mil    == Get(d.last_service_mileage)
        interval_km == IntervalOrNone(d.interval_km)
    IN  IF Truthy(last_mil) /\ Truthy(interval_km)
        THEN (IF IntOk(last_mil)
              THEN IntV(IntOf(last_mil) + IntOf(interval_km))
              ELSE Null)
        ELSE Null

\* next_date of update_schedule
UpdNextDate(d) ==
    LET last_date  == Get(d.last_service_date)
        interval_m == Get(d.interval_months)
        next_date  == Get(d.next_due_date)
    IN  IF (Truthy(last_date) /\ Truthy(interval_m)) /\ ~Truthy(next_date)
        THEN (IF IntOk(interval_m)
              THEN ClampedDate(last_date, IntOf(interval_m))
              ELSE Null)
        ELSE next_date

\* next_km of update_schedule
UpdNextKm(d) ==
    LET last_mil    == Get(d.last_service_mileage)
        interval_km == Get(d.interval_km)
        next_km     == Get(d.next_due_mileage)
    IN  IF (Truthy(last_mil) /\ Truthy(interval_km)) /\ ~Truthy(next_km)
        THEN (IF IntOk(last_mil) /\ IntOk(interval_km)
              THEN IntV(IntOf(last_mil) + IntOf(interval_km))
              ELSE Null)
        ELSE next_km

(***************************************************************************)
(* The store: what a statement parameter becomes in a column of the DDL.   *)
(***************************************************************************)
\* an INTEGER column takes NULL, an integer or a string of digits
ColIntOk(x) == x.t \in {"null", "int", "numstr"}

ColInt(x) == IF x.t = "null" THEN Null ELSE IntV(x.v)

\* a DATE column takes NULL or a string that is a calendar date
ColDateOk(x) ==
    \/ x.t = "null"
    \/ /\ x.t = "datestr"
       /\ YearOf(x.v) >= 1
       /\ MonthOf(x.v) >= 1 /\ MonthOf(x.v) <= 12
       /\ DayOf(x.v) >= 1 /\ DayOf(x.v) <= PyDaysInMonth(YearOf(x.v), MonthOf(x.v))

ColDate(x) == IF x.t = "null" THEN Null ELSE V("date", x.v)

\* a TEXT NOT NULL column takes any string
ColTextOk(x) == x.t \in {"emptystr", "blankstr", "text", "padtext"}

\* REFERENCES vehicles(id): NULL or the id of a stored vehicle
VehicleFkOk(x) == x.t = "null" \/ \E v \in vehicles : v.id = x.v

(***************************************************************************)
(* Responses.                                                              *)
(***************************************************************************)
Reply(status, error, rows) ==
    resp' = [status |-> status, error |-> error, rows |-> rows]

\* an exception no handler catches: the framework answers 500
Unhandled == Reply(500, "internal_server_error", {})

\* login_required
AuthRequired == Reply(401, "auth_required", {})

Served(op, id, d) ==
    /\ steps < MaxSteps
    /\ steps' = steps + 1
    /\ req' = [op |-> op, id |-> id, d |-> d]
    /\ UNCHANGED stats_run

(***************************************************************************)
(* POST /api/schedules                                                     *)
(***************************************************************************)
\* KindOf without the strip()
KindUnstripped(d) == Or(Get(d.kind), EmptyStr)

\* kind = (d.get("kind") or "").strip()
KindOf(d) == Strip(Or(Get(d.kind), EmptyStr))

AddScheduleRow(d) ==
    [ id                   |-> nextId.schedules,
      user_id              |-> session,
      vehicle_id           |-> ColInt(Get(d.vehicle_id)),
      kind                 |-> KindOf(d),
      interval_months      |-> ColInt(IntervalOrNone(d.interval_months)),
      interval_km          |-> ColInt(IntervalOrNone(d.interval_km)),
      last_service_date    |-> ColDate(Get(d.last_service_date)),
      last_service_mileage |-> ColInt(Get(d.last_service_mileage)),
      next_due_date        |-> ColDate(AddNextDate(d)),
      next_due_mileage     |-> ColInt(AddNextKm(d)) ]

\* AddScheduleReturning answering with the record before its derived fields are set
AddScheduleReturningUnderived(d) ==
    {[AddScheduleRow(d) EXCEPT !.next_due_date = Null, !.next_due_mileage = Null]}

\* RETURNING *: the inserted row, sent back as the response body
AddScheduleReturning(d) == {AddScheduleRow(d)}

\* the INSERT is refused by the store
AddScheduleDbError(d) ==
    \/ ~ColIntOk(Get(d.vehicle_id))
    \/ ~VehicleFkOk(ColInt(Get(d.vehicle_id)))
    \/ ~ColDateOk(Get(d.last_service_date))
    \/ ~ColIntOk(Get(d.last_service_mileage))

add_schedule(d) ==
    /\ Served("add_schedule", 0, d)
    /\ nextId.schedules <= MaxRows
    /\ IF session = NoUser
       THEN AuthRequired /\ UNCHANGED <<session, store>>
       ELSE IF ~Truthy(KindOf(d))
       THEN Reply(400, "kind_required", {}) /\ UNCHANGED <<session, store>>
       ELSE IF IntervalRaises(d.interval_months) \/ IntervalRaises(d.interval_km)
       THEN Unhandled /\ UNCHANGED <<session, store>>
       ELSE IF AddScheduleDbError(d)
       THEN Unhandled /\ UNCHANGED <<session, store>>
       ELSE /\ schedules' = schedules \cup {AddScheduleRow(d)}
            /\ nextId' = [nextId EXCEPT !.schedules = @ + 1]
            /\ Reply(200, "none", AddScheduleReturning(d))
            /\ UNCHANGED <<session, users, vehicles, entries, reminders, uploads, fuel_logs, trips>>

(***************************************************************************)
(* PUT /api/schedules/<sid>                                                *)
(***************************************************************************)
\* the columns the statement sets, in no_fields order
UpdSetsAny(d) ==
    \/ Has(d.vehicle_id) \/ Has(d.kind)
    \/ Has(d.interval_months) \/ Has(d.interval_km)
    \/ Has(d.last_service_date) \/ Has(d.last_service_mileage)
    \/ UpdNextDate(d).t # "null"
    \/ UpdNextKm(d).t # "null"

\* a parameter cannot be coerced to its column's type
UpdScheduleTypeError(d) ==
    \/ Has(d.vehicle_id) /\ ~ColIntOk(d.vehicle_id)
    \/ Has(d.kind) /\ ~(d.kind.t = "null" \/ ColTextOk(d.kind))
    \/ Has(d.interval_months) /\ ~ColIntOk(d.interval_months)
    \/ Has(d.interval_km) /\ ~ColIntOk(d.interval_km)
    \/ Has(d.last_service_date) /\ ~ColDateOk(d.last_service_date)
    \/ Has(d.last_service_mileage) /\ ~ColIntOk(d.last_service_mileage)
    \/ ~ColDateOk(UpdNextDate(d))
    \/ ~ColIntOk(UpdNextKm(d))

\* a constraint the updated row would break
UpdScheduleConstraintError(d) ==
    \/ Has(d.kind) /\ d.kind.t = "null"
    \/ Has(d.vehicle_id) /\ ~VehicleFkOk(ColInt(d.vehicle_id))

UpdScheduleRow(r, d) ==
    [ id                   |-> r.id,
      user_id              |-> r.user_id,
      vehicle_id           |-> IF Has(d.vehicle_id) THEN ColInt(d.vehicle_id) ELSE r.vehicle_id,
      kind                 |-> IF Has(d.kind) THEN d.kind ELSE r.kind,
      interval_months      |-> IF Has(d.interval_months) THEN ColInt(d.interval_months) ELSE r.interval_months,
      interval_km          |-> IF Has(d.interval_km) THEN ColInt(d.interval_km) ELSE r.interval_km,
      last_service_date    |-> IF Has(d.last_service_date) THEN ColDate(d.last_service_date) ELSE r.last_service_date,
      last_service_mileage |-> IF Has(d.last_service_mileage) THEN ColInt(d.last_service_mileage) ELSE r.last_service_mileage,
      next_due_date        |-> IF UpdNextDate(d).t # "null" THEN ColDate(UpdNextDate(d)) ELSE r.next_due_date,
      next_due_mileage     |-> IF UpdNextKm(d).t # "null" THEN ColInt(UpdNextKm(d)) ELSE r.next_due_mileage ]

\* WHERE id=:sid AND user_id=:uid
UpdScheduleMatch(sid) == {r \in schedules : r.id = sid /\ r.user_id = session}

update_schedule(sid, d) ==
    /\ Served("update_schedule", sid, d)
    /\ IF session = NoUser
       THEN AuthRequired /\ UNCHANGED <<session, store>>
       ELSE IF ~UpdSetsAny(d)
       THEN Reply(400, "no_fields", {}) /\ UNCHANGED <<session, store>>
       ELSE IF UpdScheduleTypeError(d)
       THEN Unhandled /\ UNCHANGED <<session, store>>
       ELSE IF UpdScheduleMatch(sid) # {} /\ UpdScheduleConstraintError(d)
       THEN Unhandled /\ UNCHANGED <<session, store>>
       ELSE /\ schedules' = (schedules \ UpdScheduleMatch(sid))
                              \cup {UpdScheduleRow(r, d) : r \in UpdScheduleMatch(sid)}
            /\ Reply(200, "none", {})
            /\ UNCHANGED <<session, users, vehicles, entries, reminders, uploads, nextId, fuel_logs, trips>>

(***************************************************************************)
(* POST /api/vehicles                                                      *)
(***************************************************************************)
AddVehicleRow(d) ==
    [ id        |-> nextId.vehicles,
      owner_id  |-> session,
      make      |-> Strip(Or(Get(d.make), EmptyStr)),
      model     |-> Strip(Or(Get(d.model), EmptyStr)),
      year      |-> ColInt(Get(d.year)),
      fuel      |-> Strip(Or(Get(d.fuel), EmptyStr)),
      reg_plate |-> Strip(Or(Get(d.reg_plate), EmptyStr)) ]

add_vehicle(d) ==
    /\ Served("add_vehicle", 0, d)
    /\ nextId.vehicles <= MaxRows
    /\ IF session = NoUser
       THEN AuthRequired /\ UNCHANGED <<session, store>>
       ELSE IF ~(Truthy(Strip(Or(Get(d.make), EmptyStr))) /\ Truthy(Strip(Or(Get(d.model), EmptyStr))))
       THEN Reply(400, "missing_fields", {}) /\ UNCHANGED <<session, store>>
       ELSE IF ~ColIntOk(Get(d.year))
       THEN Reply(500, "server_error", {}) /\ UNCHANGED <<session, store>>
       ELSE /\ vehicles' = vehicles \cup {AddVehicleRow(d)}
            /\ nextId' = [nextId EXCEPT !.vehicles = @ + 1]
            /\ Reply(200, "none", {})
            /\ UNCHANGED <<session, users, entries, reminders, schedules, uploads, fuel_logs, trips>>

(***************************************************************************)
(* POST /api/entries                                                       *)
(***************************************************************************)
\* date.today().isoformat()
Today == DateStr(2025, 6, 15)

\* the names of uploaded files: v names the file, extensions in
\* ALLOWED_EXTENSIONS are those of the files in AllowedFiles
NoFile == Absent

AllowedFiles == {Text(21)}

\* attachment_name = f"{ts}_{fname}", ts the time of the request
AttachmentName(file) == [ts |-> steps, fname |-> file.v]

NoAttachment == [ts |-> 0, fname |-> 0]

\* int(data.get("mileage") or 0) or float(data.get("cost") or 0) raises
EntryNumberRaises(d) ==
    \/ ~IntOk(Or(Get(d.mileage), IntV(0)))
    \/ ~IntOk(Or(Get(d.cost), IntV(0)))

AddEntryRow(d, file) ==
    [ id           |-> nextId.entries,
      vehicle_id   |-> IntOf(Get(d.vehicle_id)),
      date         |-> ColDate(Or(Get(d.date), Today)),
      mileage      |-> IntV(IntOf(Or(Get(d.mileage), IntV(0)))),
      service_type |-> Strip(Or(Get(d.service_type), EmptyStr)),
      description  |-> Strip(Or(Get(d.description), EmptyStr)),
      cost         |-> IntV(IntOf(Or(Get(d.cost), IntV(0)))),
      attachment   |-> IF file = NoFile THEN NoAttachment ELSE AttachmentName(file) ]

\* the INSERT is refused by the store
AddEntryDbError(d) ==
    \/ ~VehicleFkOk(IntV(IntOf(Get(d.vehicle_id))))
    \/ ~ColDateOk(Or(Get(d.date), Today))

add_entry(d, file) ==
    /\ Served("add_entry", 0, d)
    /\ nextId.entries <= MaxEntries
    /\ IF session = NoUser
       THEN AuthRequired /\ UNCHANGED <<session, store>>
       ELSE IF ~IntOk(Get(d.vehicle_id))
       THEN Reply(400, "vehicle_id_required", {}) /\ UNCHANGED <<session, store>>
       ELSE IF EntryNumberRaises(d)
       THEN Unhandled /\ UNCHANGED <<session, store>>
       ELSE IF ~Truthy(Strip(Or(Get(d.service_type), EmptyStr)))
       THEN Reply(400, "service_type_required", {}) /\ UNCHANGED <<session, store>>
       ELSE IF file # NoFile /\ file \notin AllowedFiles
       THEN Reply(400, "file_type_not_allowed", {}) /\ UNCHANGED <<session, store>>
       ELSE /\ uploads' = IF file = NoFile THEN uploads
                          ELSE uploads \cup {AttachmentName(file)}
            /\ IF AddEntryDbError(d)
               THEN Unhandled /\ UNCHANGED <<entries, nextId>>
               ELSE /\ entries' = entries \cup {AddEntryRow(d, file)}
                    /\ nextId' = [nextId EXCEPT !.entries = @ + 1]
                    /\ Reply(200, "none", {})
            /\ UNCHANGED <<session, users, vehicles, reminders, schedules, fuel_logs, trips>>

(***************************************************************************)
(* POST /api/reminders                                                     *)
(***************************************************************************)
AddReminderRow(d) ==
    [ id                 |-> nextId.reminders,
      user_id            |-> session,
      vehicle_id         |-> ColInt(Get(d.vehicle_id)),
      title              |-> Strip(Or(Get(d.title), EmptyStr)),
      due_date           |-> ColDate(Get(d.due_date)),
      due_mileage        |-> ColInt(Get(d.due_mileage)),
      notify_email       |-> Truthy(Get(d.notify_email)),
      notify_before_days |-> IntV(IntOf(Or(Get(d.notify_before_days), IntV(7)))),
      completed_at       |-> Null ]

\* int(d.get("notify_before_days") or 7) raises, or the INSERT is refused
AddReminderError(d) ==
    \/ ~IntOk(Or(Get(d.notify_before_days), IntV(7)))
    \/ ~ColIntOk(Get(d.vehicle_id))
    \/ ~VehicleFkOk(ColInt(Get(d.vehicle_id)))
    \/ ~ColDateOk(Get(d.due_date))
    \/ ~ColIntOk(Get(d.due_mileage))

add_reminder(d) ==
    /\ Served("add_reminder", 0, d)
    /\ nextId.reminders <= MaxRows
    /\ IF session = NoUser
       THEN AuthRequired /\ UNCHANGED <<session, store>>
       ELSE IF ~Truthy(Strip(Or(Get(d.title), EmptyStr)))
       THEN Reply(400, "title_required", {}) /\ UNCHANGED <<session, store>>
       ELSE IF AddReminderError(d)
       THEN Unhandled /\ UNCHANGED <<session, store>>
       ELSE /\ reminders' = reminders \cup {AddReminderRow(d)}
            /\ nextId' = [nextId EXCEPT !.reminders = @ + 1]
            /\ Reply(200, "none", {})
            /\ UNCHANGED <<session, users, vehicles, entries, schedules, uploads, fuel_logs, trips>>

(***************************************************************************)
(* PUT /api/reminders/<rid>                                                *)
(***************************************************************************)
\* a JSON true or false
Bool(b) == V("bool", IF b THEN 1 ELSE 0)

UpdReminderSetsAny(d) ==
    \/ Has(d.title) \/ Has(d.due_date) \/ Has(d.due_mileage)
    \/ Has(d.notify_email) \/ Has(d.notify_before_days) \/ Has(d.completed_at)

\* a parameter cannot be coerced to its column's type
UpdReminderTypeError(d) ==
    \/ Has(d.title) /\ ~(d.title.t = "null" \/ ColTextOk(d.title))
    \/ Has(d.due_date) /\ ~ColDateOk(d.due_date)
    \/ Has(d.due_mileage) /\ ~ColIntOk(d.due_mileage)
    \/ Has(d.notify_email) /\ d.notify_email.t \notin {"null", "bool"}
    \/ Has(d.notify_before_days) /\ ~ColIntOk(d.notify_before_days)
    \/ Has(d.completed_at) /\ ~ColDateOk(d.completed_at)

\* a NOT NULL column the updated row would leave empty
UpdReminderConstraintError(d) ==
    \/ Has(d.title) /\ d.title.t = "null"
    \/ Has(d.notify_email) /\ d.notify_email.t = "null"
    \/ Has(d.notify_before_days) /\ d.notify_before_days.t = "null"

UpdReminderRow(r, d) ==
    [ id                 |-> r.id,
      user_id            |-> r.user_id,
      vehicle_id         |-> r.vehicle_id,
      title              |-> IF Has(d.title) THEN d.title ELSE r.title,
      due_date           |-> IF Has(d.due_date) THEN ColDate(d.due_date) ELSE r.due_date,
      due_mileage        |-> IF Has(d.due_mileage) THEN ColInt(d.due_mileage) ELSE r.due_mileage,
      notify_email       |-> IF Has(d.notify_email) THEN d.notify_email.v = 1 ELSE r.notify_email,
      notify_before_days |-> IF Has(d.notify_before_days) THEN ColInt(d.notify_before_days)
                             ELSE r.notify_before_days,
      completed_at       |-> IF Has(d.completed_at) THEN ColDate(d.completed_at) ELSE r.completed_at ]

\* WHERE id=:rid AND user_id=:uid
UpdReminderMatch(rid) == {r \in reminders : r.id = rid /\ r.user_id = session}

update_reminder(rid, d) ==
    /\ Served("update_reminder", rid, d)
    /\ IF session = NoUser
       THEN AuthRequired /\ UNCHANGED <<session, store>>
       ELSE IF ~UpdReminderSetsAny(d)
       THEN Reply(400, "no_fields", {}) /\ UNCHANGED <<session, store>>
       ELSE IF UpdReminderTypeError(d)
       THEN Unhandled /\ UNCHANGED <<session, store>>
       ELSE IF UpdReminderMatch(rid) # {} /\ UpdReminderConstraintError(d)
       THEN Unhandled /\ UNCHANGED <<session, store>>
       ELSE /\ reminders' = (reminders \ UpdReminderMatch(rid))
                              \cup {UpdReminderRow(r, d) : r \in UpdReminderMatch(rid)}
            /\ Reply(200, "none", {})
            /\ UNCHANGED <<session, users, vehicles, entries, schedules, fuel_logs, trips, uploads, nextId>>

(***************************************************************************)
(* GET /api/reminders                                                      *)
(***************************************************************************)
\* the rows of S in the order of before, the pairs of a strict total order on S
Sorted(S, before) ==
    [i \in 1 .. Cardinality(S) |->
        CHOOSE x \in S : Cardinality({y \in S : <<y, x>> \in before}) = i - 1]

\* COALESCE(due_date, '9999-12-31')
DueDateOrLast(r) == IF r.due_date.t = "null" THEN 99991231 ELSE r.due_date.v

\* ORDER BY COALESCE(due_date, '9999-12-31') ASC, id DESC
ReminderBefore(a, b) ==
    \/ DueDateOrLast(a) < DueDateOrLast(b)
    \/ DueDateOrLast(a) = DueDateOrLast(b) /\ a.id > b.id

\* is_due computed with < in place of <=
IsDueStrictlyBefore(r) ==
    IF Truthy(r.due_date) THEN r.due_date.v < Today.v ELSE FALSE

\* is_due = False; if r["due_date"]: is_due = fromisoformat(str(due_date)) <= date.today()
IsDue(r) ==
    IF Truthy(r.due_date) THEN r.due_date.v <= Today.v ELSE FALSE

\* res.append({**dict(r), "is_due": is_due})
WithIsDue(r) == [row |-> r, is_due |-> IsDue(r)]

ListRemindersRows == {r \in reminders : r.user_id = session}

list_reminders ==
    /\ Served("list_reminders", 0, [none |-> Absent])
    /\ IF session = NoUser
       THEN AuthRequired
       ELSE Reply(200, "none",
                  LET rows == Sorted(ListRemindersRows,
                                     {p \in ListRemindersRows \X ListRemindersRows :
                                         ReminderBefore(p[1], p[2])})
                  IN  [i \in 1 .. Len(rows) |-> WithIsDue(rows[i])])
    /\ UNCHANGED <<session, store>>

(***************************************************************************)
(* PUT /api/entries/<entry_id>                                             *)
(***************************************************************************)
UpdEntrySetsAny(d) ==
    \/ Has(d.date) \/ Has(d.mileage) \/ Has(d.service_type)
    \/ Has(d.description) \/ Has(d.cost)

\* a parameter cannot be coerced to its column's type
UpdEntryTypeError(d) ==
    \/ Has(d.date) /\ ~ColDateOk(d.date)
    \/ Has(d.mileage) /\ ~ColIntOk(d.mileage)
    \/ Has(d.service_type) /\ ~(d.service_type.t = "null" \/ ColTextOk(d.service_type))
    \/ Has(d.description) /\ ~(d.description.t = "null" \/ ColTextOk(d.description))
    \/ Has(d.cost) /\ ~ColIntOk(d.cost)

\* a NOT NULL column the updated row would leave empty
UpdEntryConstraintError(d) ==
    \/ Has(d.date) /\ d.date.t = "null"
    \/ Has(d.service_type) /\ d.service_type.t = "null"

UpdEntryRow(r, d) ==
    [ id           |-> r.id,
      vehicle_id   |-> r.vehicle_id,
      date         |-> IF Has(d.date) THEN ColDate(d.date) ELSE r.date,
      mileage      |-> IF Has(d.mileage) THEN ColInt(d.mileage) ELSE r.mileage,
      service_type |-> IF Has(d.service_type) THEN d.service_type ELSE r.service_type,
      description  |-> IF Has(d.description) THEN d.description ELSE r.description,
      cost         |-> IF Has(d.cost) THEN ColInt(d.cost) ELSE r.cost,
      attachment   |-> r.attachment ]

\* SELECT id FROM vehicles WHERE owner_id=:uid
OwnedVehicleIds == {v.id : v \in {w \in vehicles : w.owner_id = session}}

\* WHERE id=:id AND vehicle_id IN (SELECT id FROM vehicles WHERE owner_id=:uid)
UpdEntryMatch(entry_id) ==
    {r \in entries : r.id = entry_id /\ r.vehicle_id \in OwnedVehicleIds}

update_entry(entry_id, d) ==
    /\ Served("update_entry", entry_id, d)
    /\ IF session = NoUser
       THEN AuthRequired /\ UNCHANGED <<session, store>>
       ELSE IF ~UpdEntrySetsAny(d)
       THEN Reply(400, "no_fields", {}) /\ UNCHANGED <<session, store>>
       ELSE IF UpdEntryTypeError(d)
       THEN Unhandled /\ UNCHANGED <<session, store>>
       ELSE IF UpdEntryMatch(entry_id) # {} /\ UpdEntryConstraintError(d)
       THEN Unhandled /\ UNCHANGED <<session, store>>
       ELSE /\ entries' = (entries \ UpdEntryMatch(entry_id))
                            \cup {UpdEntryRow(r, d) : r \in UpdEntryMatch(entry_id)}
            /\ Reply(200, "none", {})
            /\ UNCHANGED <<session, users, vehicles, reminders, schedules, fuel_logs, trips, uploads, nextId>>

(***************************************************************************)
(* POST /api/fuel_logs                                                     *)
(***************************************************************************)
\* int(d.get("vehicle_id") or 0)
VehicleIdOrZero(d) == Or(Get(d.vehicle_id), IntV(0))

\* float(d.get("liters") or 0), float(d.get("price_per_liter") or 0)
LitersOf(d) == IntOf(Or(Get(d.liters), IntV(0)))

PriceOf(d) == IntOf(Or(Get(d.price_per_liter), IntV(0)))

FuelNumberRaises(d) ==
    \/ ~IntOk(Or(Get(d.liters), IntV(0)))
    \/ ~IntOk(Or(Get(d.price_per_liter), IntV(0)))

\* float(total_cost) if total_cost is not None else liters * price; liters * price
\* as well when float() raises
FuelTotalCost(d) ==
    IF Get(d.total_cost).t # "null" /\ IntOk(Get(d.total_cost))
    THEN IntOf(Get(d.total_cost))
    ELSE LitersOf(d) * PriceOf(d)

\* int(odometer) if odometer not in (None, "") else None; None when int() raises
FuelOdometer(d) ==
    IF Get(d.odometer).t \notin {"null", "emptystr"} /\ IntOk(Get(d.odometer))
    THEN IntV(IntOf(Get(d.odometer)))
    ELSE Null

\* SELECT owner_id FROM vehicles WHERE id=:vid, NoUser for no row
OwnerOf(vid) ==
    IF \E v \in vehicles : v.id = vid
    THEN (CHOOSE v \in vehicles : v.id = vid).owner_id
    ELSE NoUser

\* not (not owner_id or int(owner_id) != int(session["user_id"]))
IsOwner(vid) == OwnerOf(vid) # NoUser /\ OwnerOf(vid) = session

AddFuelLogRow(d) ==
    [ id              |-> nextId.fuel_logs,
      user_id         |-> session,
      vehicle_id      |-> IntOf(VehicleIdOrZero(d)),
      date            |-> ColDate(Or(Get(d.date), Today)),
      station         |-> Strip(Or(Get(d.station), EmptyStr)),
      liters          |-> IntV(LitersOf(d)),
      price_per_liter |-> IntV(PriceOf(d)),
      total_cost      |-> IntV(FuelTotalCost(d)),
      odometer        |-> FuelOdometer(d),
      full_tank       |-> Truthy(Get(d.full_tank)) ]

add_fuel_log(d) ==
    /\ Served("add_fuel_log", 0, d)
    /\ nextId.fuel_logs <= MaxRows
    /\ IF session = NoUser
       THEN AuthRequired /\ UNCHANGED <<session, store>>
       ELSE IF ~IntOk(VehicleIdOrZero(d)) \/ IntOf(VehicleIdOrZero(d)) = 0
       THEN Reply(400, "vehicle_id_required", {}) /\ UNCHANGED <<session, store>>
       ELSE IF FuelNumberRaises(d)
       THEN Reply(400, "bad_number", {}) /\ UNCHANGED <<session, store>>
       ELSE IF LitersOf(d) <= 0 \/ PriceOf(d) <= 0
       THEN Reply(400, "missing_fields", {}) /\ UNCHANGED <<session, store>>
       ELSE IF ~IsOwner(IntOf(VehicleIdOrZero(d)))
       THEN Reply(403, "forbidden", {}) /\ UNCHANGED <<session, store>>
       ELSE IF ~ColDateOk(Or(Get(d.date), Today))
       THEN Unhandled /\ UNCHANGED <<session, store>>
       ELSE /\ fuel_logs' = fuel_logs \cup {AddFuelLogRow(d)}
            /\ nextId' = [nextId EXCEPT !.fuel_logs = @ + 1]
            /\ Reply(200, "none", {})
            /\ UNCHANGED <<session, users, vehicles, entries, reminders, schedules, trips, uploads>>

(***************************************************************************)
(* POST /api/trips                                                         *)
(***************************************************************************)
\* float(x or 0) or None; None when float() raises
FloatOrNone(x) ==
    IF IntOk(Or(Get(x), IntV(0))) /\ IntOf(Or(Get(x), IntV(0))) # 0
    THEN IntV(IntOf(Or(Get(x), IntV(0))))
    ELSE Null

\* a TIME column takes NULL; no other value of the model is a time of day
ColTimeOk(x) == x.t = "null"

AddTripRow(d) ==
    [ id              |-> nextId.trips,
      user_id         |-> session,
      vehicle_id      |-> IntOf(VehicleIdOrZero(d)),
      start_date      |-> ColDate(Or(Get(d.start_date), Today)),
      end_date        |-> ColDate(Or(Get(d.end_date), Null)),
      start_time      |-> Or(Get(d.start_time), Null),
      end_time        |-> Or(Get(d.end_time), Null),
      start_location  |-> Strip(Or(Get(d.start_location), EmptyStr)),
      end_location    |-> Strip(Or(Get(d.end_location), EmptyStr)),
      distance_km     |-> FloatOrNone(d.distance_km),
      avg_consumption |-> FloatOrNone(d.avg_consumption),
      planned         |-> Truthy(Get(d.planned)),
      notes           |-> Strip(Or(Get(d.notes), EmptyStr)) ]

\* the INSERT is refused by the store
AddTripDbError(d) ==
    \/ ~ColDateOk(Or(Get(d.start_date), Today))
    \/ ~ColDateOk(Or(Get(d.end_date), Null))
    \/ ~ColTimeOk(Or(Get(d.start_time), Null))
    \/ ~ColTimeOk(Or(Get(d.end_time), Null))

add_trip(d) ==
    /\ Served("add_trip", 0, d)
    /\ nextId.trips <= MaxRows
    /\ IF session = NoUser
       THEN AuthRequired /\ UNCHANGED <<session, store>>
       ELSE IF ~IntOk(VehicleIdOrZero(d)) \/ IntOf(VehicleIdOrZero(d)) = 0
       THEN Reply(400, "vehicle_id_required", {}) /\ UNCHANGED <<session, store>>
       ELSE IF ~IsOwner(IntOf(VehicleIdOrZero(d)))
       THEN Reply(403, "forbidden", {}) /\ UNCHANGED <<session, store>>
       ELSE IF AddTripDbError(d)
       THEN Unhandled /\ UNCHANGED <<session, store>>
       ELSE /\ trips' = trips \cup {AddTripRow(d)}
            /\ nextId' = [nextId EXCEPT !.trips = @ + 1]
            /\ Reply(200, "none", {})
            /\ UNCHANGED <<session, users, vehicles, entries, reminders, schedules, fuel_logs, uploads>>

(***************************************************************************)
(* GET /api/stats                                                          *)
(* Amounts are whole numbers, on which NUMERIC and float arithmetic are    *)
(* exact; a quotient is kept as the pair of its operands.                  *)
(***************************************************************************)
Max(a, b) == IF a >= b THEN a ELSE b

\* the sum of the values of the function f
RECURSIVE SumOf(_)
SumOf(f) ==
    IF DOMAIN f = {} THEN 0
    ELSE LET x == CHOOSE x \in DOMAIN f : TRUE
         IN  f[x] + SumOf([y \in DOMAIN f \ {x} |-> f[y]])

\* the rows whose column value f[row] is not NULL
NonNull(f) == {x \in DOMAIN f : f[x].t # "null"}

\* SUM(col), MIN(col), MAX(col): NULL when no row has a value
SqlSum(f) ==
    IF NonNull(f) = {} THEN Null
    ELSE IntV(SumOf([x \in NonNull(f) |-> f[x].v]))

SqlMin(f) ==
    IF NonNull(f) = {} THEN Null
    ELSE f[CHOOSE x \in NonNull(f) : \A y \in NonNull(f) : f[x].v <= f[y].v]

SqlMax(f) ==
    IF NonNull(f) = {} THEN Null
    ELSE f[CHOOSE x \in NonNull(f) : \A y \in NonNull(f) : f[x].v >= f[y].v]

\* COALESCE(x, n)
Coalesce(x, n) == IF x.t = "null" THEN n ELSE x.v

\* a / b in floating point
Quot(a, b) == [t |-> "quot", v |-> a, den |-> b]

\* TO_CHAR(date,'YYYY-MM-DD')
ToChar(x) == V("datestr", x.v)

\* v.make || ' ' || v.model || ' ' || COALESCE(v.reg_plate,'')
Label(v) ==
    [ make |-> v.make, model |-> v.model,
      reg_plate |-> IF v.reg_plate.t = "null" THEN EmptyStr ELSE v.reg_plate ]

\* FROM vehicles v WHERE v.owner_id=:uid
StatsVehicles == {v \in vehicles : v.owner_id = session}

\* FROM service_entries e JOIN vehicles v ON v.id=e.vehicle_id WHERE v.owner_id=:uid
StatsEntries == {e \in entries : \E v \in StatsVehicles : v.id = e.vehicle_id}

\* FROM fuel_logs f JOIN vehicles v ON v.id=f.vehicle_id WHERE v.owner_id=:uid
StatsFuelLogs == {f \in fuel_logs : \E v \in StatsVehicles : v.id = f.vehicle_id}

\* by_day_service: ymd -> COALESCE(SUM(cost),0), GROUP BY ymd
ByDayService ==
    [ ymd \in {ToChar(e.date) : e \in StatsEntries} |->
        Coalesce(SqlSum([e \in {x \in StatsEntries : ToChar(x.date) = ymd} |-> e.cost]), 0) ]

\* by_day_fuel: ymd -> COALESCE(SUM(total_cost),0), GROUP BY ymd
ByDayFuel ==
    [ ymd \in {ToChar(f.date) : f \in StatsFuelLogs} |->
        Coalesce(SqlSum([f \in {x \in StatsFuelLogs : ToChar(x.date) = ymd} |-> f.total_cost]), 0) ]

\* by_day_map built from the days of the service entries alone
ByDayMapOfServiceDays ==
    [ y \in DOMAIN ByDayService |->
        ByDayService[y] + (IF y \in DOMAIN ByDayFuel THEN ByDayFuel[y] ELSE 0) ]

\* by_day_map: the service rows, then the fuel rows added to them
ByDayMap ==
    [ y \in DOMAIN ByDayService \cup DOMAIN ByDayFuel |->
        (IF y \in DOMAIN ByDayService THEN ByDayService[y] ELSE 0)
        + (IF y \in DOMAIN ByDayFuel THEN ByDayFuel[y] ELSE 0) ]

\* sorted(by_day_map.items()): the order of the ymd strings, which for years
\* of four digits is the order of their encodings
ByDayCombined ==
    LET items == {[ymd |-> y, total_cost |-> ByDayMap[y]] : y \in DOMAIN ByDayMap}
    IN  Sorted(items, {p \in items \X items : p[1].ymd.v < p[2].ymd.v})

\* last_mileage: COALESCE(MAX(e.mileage),0) of each vehicle, LEFT JOIN
LastMileage ==
    { [ vehicle_id |-> v.id, label |-> Label(v),
        mileage |-> Coalesce(SqlMax([e \in {x \in entries : x.vehicle_id = v.id} |-> e.mileage]), 0) ] :
      v \in StatsVehicles }

\* total_cost with the service entries alone
ServiceCostOnly == Coalesce(SqlSum([e \in StatsEntries |-> e.cost]), 0)

\* total_cost = float(total_service_cost) + float(total_fuel_cost)
TotalCost ==
    Coalesce(SqlSum([e \in StatsEntries |-> e.cost]), 0)
    + Coalesce(SqlSum([f \in StatsFuelLogs |-> f.total_cost]), 0)

\* mi: SELECT MIN(date)
EarliestEntryDate == SqlMin([e \in StatsEntries |-> e.date])

\* months without the floor of 1
MonthsUnclamped ==
    IF Truthy(EarliestEntryDate)
    THEN (YearOf(Today.v) - YearOf(EarliestEntryDate.v)) * 12
         + (MonthOf(Today.v) - MonthOf(EarliestEntryDate.v))
    ELSE 0

\* months = 0; if mi: months = max(1, (today.year - d0.year) * 12 + (today.month - d0.month))
Months ==
    IF Truthy(EarliestEntryDate)
    THEN Max(1, (YearOf(Today.v) - YearOf(EarliestEntryDate.v)) * 12
                + (MonthOf(Today.v) - MonthOf(EarliestEntryDate.v)))
    ELSE 0

\* the rows of the two mileage queries: WHERE ... AND mileage IS NOT NULL
MileageEntries == {e \in StatsEntries : e.mileage.t # "null"}

\* km with the smallest mileage taken as 0
KmFromZero == Max(0, Coalesce(SqlMax([e \in MileageEntries |-> e.mileage]), 0))

\* km = max(0, max_mil - min_mil)
Km ==
    Max(0, Coalesce(SqlMax([e \in MileageEntries |-> e.mileage]), 0)
           - Coalesce(SqlMin([e \in MileageEntries |-> e.mileage]), 0))

\* cost_per_km = float(total_cost) / km if km > 0 else None
CostPerKm == IF Km > 0 THEN Quot(TotalCost, Km) ELSE Null

\* cost_per_month over at least one month even without entries
CostPerMonthAlways == Quot(TotalCost, Max(1, Months))

\* cost_per_month = float(total_cost) / months if months > 0 else None
CostPerMonth == IF Months > 0 THEN Quot(TotalCost, Months) ELSE Null

Tco ==
    [ total_cost |-> TotalCost, months |-> Months, km |-> Km,
      cost_per_km |-> CostPerKm, cost_per_month |-> CostPerMonth ]

\* the fuel logs of one group of fuel_rows: GROUP BY v.id, label
FuelLogsOf(v) == {f \in StatsFuelLogs : f.vehicle_id = v.id}

\* distance taken over the odometers of every vehicle of the user
FuelDistanceFleetWide(v) ==
    LET min_odo == SqlMin([f \in StatsFuelLogs |-> f.odometer])
        max_odo == SqlMax([f \in StatsFuelLogs |-> f.odometer])
    IN  IF min_odo.t # "null" /\ max_odo.t # "null"
        THEN IntV(Max(0, max_odo.v - min_odo.v))
        ELSE Null

\* distance = max(0, int(max_odo) - int(min_odo)), None without an odometer
FuelDistance(v) ==
    LET min_odo == SqlMin([f \in FuelLogsOf(v) |-> f.odometer])
        max_odo == SqlMax([f \in FuelLogsOf(v) |-> f.odometer])
    IN  IF min_odo.t # "null" /\ max_odo.t # "null"
        THEN IntV(Max(0, max_odo.v - min_odo.v))
        ELSE Null

\* total_liters = float(r["total_liters"] or 0)
FuelTotalLiters(v) == Coalesce(SqlSum([f \in FuelLogsOf(v) |-> f.liters]), 0)

\* avg_l_100 = total_liters * 100.0 / float(distance)
\*   if distance and distance > 0 and total_liters > 0
FuelAverage(v) ==
    IF Truthy(FuelDistance(v)) /\ FuelDistance(v).v > 0 /\ FuelTotalLiters(v) > 0
    THEN Quot(FuelTotalLiters(v) * 100, FuelDistance(v).v)
    ELSE Null

FuelStats ==
    { [ vehicle_id |-> v.id, label |-> Label(v),
        total_liters |-> FuelTotalLiters(v),
        distance_km |-> FuelDistance(v),
        avg_l_100km |-> FuelAverage(v) ] :
      v \in {w \in StatsVehicles : FuelLogsOf(w) # {}} }

\* the rows of the UNION ALL: one per service entry and one per fuel log
DailyUnion ==
    { [ src |-> "service", id |-> e.id, d |-> e.date, vehicle_id |-> e.vehicle_id,
        service_cost |-> Coalesce(e.cost, 0), fuel_cost |-> 0 ] : e \in StatsEntries }
    \cup
    { [ src |-> "fuel", id |-> f.id, d |-> f.date, vehicle_id |-> f.vehicle_id,
        service_cost |-> 0, fuel_cost |-> Coalesce(f.total_cost, 0) ] : f \in StatsFuelLogs }

\* the total_cost of a daily row taken from the service costs alone
DailyTotalOfService(rows) == SumOf([s \in rows |-> s.service_cost])

\* SUM(service_cost + fuel_cost)
DailyTotal(rows) == SumOf([s \in rows |-> s.service_cost + s.fuel_cost])

\* daily_rows: GROUP BY ymd, vehicle_id, label
DailyRows ==
    { LET rows == {s \in DailyUnion : ToChar(s.d) = k[1] /\ s.vehicle_id = k[2]}
          v == CHOOSE w \in StatsVehicles : w.id = k[2]
      IN  [ ymd |-> k[1], vehicle_id |-> k[2], label |-> Label(v),
            service_cost |-> SumOf([s \in rows |-> s.service_cost]),
            fuel_cost |-> SumOf([s \in rows |-> s.fuel_cost]),
            total_cost |-> DailyTotal(rows) ] :
      k \in {<<ToChar(s.d), s.vehicle_id>> : s \in DailyUnion} }

\* the body of the response with the number of requests served so far in it
StatsResponseCounting ==
    [ by_day |-> ByDayCombined, last_mileage |-> LastMileage,
      tco |-> [Tco EXCEPT !.months = steps],
      fuel_stats |-> FuelStats, daily_vehicle_costs |-> DailyRows ]

\* jsonify({...}); the rows of last_mileage, fuel_stats and daily_vehicle_costs
\* are kept as sets: ORDER BY label leaves the order of equal labels open
StatsResponse ==
    [ by_day |-> ByDayCombined, last_mileage |-> LastMileage, tco |-> Tco,
      fuel_stats |-> FuelStats, daily_vehicle_costs |-> DailyRows ]

stats ==
    /\ Served("stats", 0, [none |-> Absent])
    /\ IF session = NoUser
       THEN AuthRequired
       ELSE Reply(200, "none", StatsResponse)
    /\ UNCHANGED <<session, store>>

(***************************************************************************)
(* GET /api/stats statement by statement.  The handler runs ten SELECT     *)
(* statements in one transaction of the default isolation level, READ      *)
(* COMMITTED, in which every statement sees the rows committed when it     *)
(* starts; requests of other connections commit between them.  stats_run   *)
(* holds the results of the statements run so far.                         *)
(***************************************************************************)
StatsStatements == 10

\* the result of the k-th statement against the rows committed now
StatementResult(k) ==
    CASE k = 1 -> ByDayService
      [] k = 2 -> ByDayFuel
      [] k = 3 -> LastMileage
      [] k = 4 -> Coalesce(SqlSum([e \in StatsEntries |-> e.cost]), 0)
      [] k = 5 -> Coalesce(SqlSum([f \in StatsFuelLogs |-> f.total_cost]), 0)
      [] k = 6 -> EarliestEntryDate
      [] k = 7 -> Coalesce(SqlMin([e \in MileageEntries |-> e.mileage]), 0)
      [] k = 8 -> Coalesce(SqlMax([e \in MileageEntries |-> e.mileage]), 0)
      [] k = 9 -> FuelStats
      [] OTHER -> DailyRows

\* by_day_map and by_day_combined of the two by-day results
RunByDay(service, fuel) ==
    LET total(y) == (IF y \in DOMAIN service THEN service[y] ELSE 0)
                    + (IF y \in DOMAIN fuel THEN fuel[y] ELSE 0)
        items == {[ymd |-> y, total_cost |-> total(y)] : y \in DOMAIN service \cup DOMAIN fuel}
    IN  Sorted(items, {p \in items \X items : p[1].ymd.v < p[2].ymd.v})

\* months, km, cost_per_km and cost_per_month of the results of statements 4 to 8
RunTco(r) ==
    LET total_cost == r[4] + r[5]
        months == IF Truthy(r[6])
                  THEN Max(1, (YearOf(Today.v) - YearOf(r[6].v)) * 12
                              + (MonthOf(Today.v) - MonthOf(r[6].v)))
                  ELSE 0
        km == Max(0, r[8] - r[7])
    IN  [ total_cost |-> total_cost, months |-> months, km |-> km,
          cost_per_km |-> IF km > 0 THEN Quot(total_cost, km) ELSE Null,
          cost_per_month |-> IF months > 0 THEN Quot(total_cost, months) ELSE Null ]

\* jsonify({...}) of the results of the ten statements
RunResponse(r) ==
    [ by_day |-> RunByDay(r[1], r[2]), last_mileage |-> r[3], tco |-> RunTco(r),
      fuel_stats |-> r[9], daily_vehicle_costs |-> r[10] ]

\* the request arrives, or its next statement runs
stats_statement ==
    /\ steps < MaxSteps
    /\ Len(stats_run) < StatsStatements
    /\ IF session = NoUser
       THEN /\ steps' = steps + 1
            /\ req' = [op |-> "stats", id |-> 0, d |-> [none |-> Absent]]
            /\ AuthRequired
            /\ UNCHANGED stats_run
       ELSE /\ stats_run' = Append(stats_run, StatementResult(Len(stats_run) + 1))
            /\ UNCHANGED <<steps, req, resp>>
    /\ UNCHANGED <<session, store>>

\* the transaction ends and the response is sent
stats_reply ==
    /\ steps < MaxSteps
    /\ Len(stats_run) = StatsStatements
    /\ steps' = steps + 1
    /\ req' = [op |-> "stats", id |-> 0, d |-> [none |-> Absent]]
    /\ Reply(200, "none", RunResponse(stats_run))
    /\ stats_run' = NoRun
    /\ UNCHANGED <<session, store>>

(***************************************************************************)
(* DELETE /api/vehicles/<id>, /api/entries/<id>, /api/reminders/<id>,      *)
(* /api/schedules/<id>, /api/fuel_logs/<id>, /api/trips/<id>: one DELETE   *)
(* statement filtered on the user of the session; the answer is ok whether *)
(* or not a row matched.                                                   *)
(***************************************************************************)
\* DeleteVehicleMatch without the owner in the WHERE clause
DeleteVehicleMatchAnyOwner(vehicle_id) == {v \in vehicles : v.id = vehicle_id}

\* WHERE id=:vid AND owner_id=:uid
DeleteVehicleMatch(vehicle_id) ==
    {v \in vehicles : v.id = vehicle_id /\ v.owner_id = session}

\* Cascaded with the rows of the removed vehicles left in place
CascadedNowhere(rows, gone) == rows

\* ON DELETE CASCADE of a NOT NULL vehicle_id: the rows that stay
Cascaded(rows, gone) == {r \in rows : ~\E v \in gone : v.id = r.vehicle_id}

\* ON DELETE CASCADE of a nullable vehicle_id: the rows that stay
CascadedNullable(rows, gone) ==
    {r \in rows : r.vehicle_id.t = "null" \/ ~\E v \in gone : v.id = r.vehicle_id.v}

delete_vehicle(vehicle_id) ==
    /\ Served("delete_vehicle", vehicle_id, [none |-> Absent])
    /\ IF session = NoUser
       THEN AuthRequired /\ UNCHANGED <<session, store>>
       ELSE /\ vehicles' = vehicles \ DeleteVehicleMatch(vehicle_id)
            /\ entries' = Cascaded(entries, DeleteVehicleMatch(vehicle_id))
            /\ fuel_logs' = Cascaded(fuel_logs, DeleteVehicleMatch(vehicle_id))
            /\ trips' = Cascaded(trips, DeleteVehicleMatch(vehicle_id))
            /\ reminders' = CascadedNullable(reminders, DeleteVehicleMatch(vehicle_id))
            /\ schedules' = CascadedNullable(schedules, DeleteVehicleMatch(vehicle_id))
            /\ Reply(200, "none", {})
            /\ UNCHANGED <<session, users, uploads, nextId>>

\* WHERE id=:id AND vehicle_id IN (SELECT id FROM vehicles WHERE owner_id=:uid)
DeleteEntryMatch(entry_id) ==
    {e \in entries : e.id = entry_id /\ e.vehicle_id \in OwnedVehicleIds}

delete_entry(entry_id) ==
    /\ Served("delete_entry", entry_id, [none |-> Absent])
    /\ IF session = NoUser
       THEN AuthRequired /\ UNCHANGED <<session, store>>
       ELSE /\ entries' = entries \ DeleteEntryMatch(entry_id)
            /\ Reply(200, "none", {})
            /\ UNCHANGED <<session, users, vehicles, reminders, schedules, fuel_logs, trips,
                           uploads, nextId>>

\* WHERE id=:rid AND user_id=:uid, of reminders, service_schedules, fuel_logs and trips
DeleteOwnMatch(rows, id) == {r \in rows : r.id = id /\ r.user_id = session}

delete_reminder(rid) ==
    /\ Served("delete_reminder", rid, [none |-> Absent])
    /\ IF session = NoUser
       THEN AuthRequired /\ UNCHANGED <<session, store>>
       ELSE /\ reminders' = reminders \ DeleteOwnMatch(reminders, rid)
            /\ Reply(200, "none", {})
            /\ UNCHANGED <<session, users, vehicles, entries, schedules, fuel_logs, trips,
                           uploads, nextId>>

delete_schedule(sid) ==
    /\ Served("delete_schedule", sid, [none |-> Absent])
    /\ IF session = NoUser
       THEN AuthRequired /\ UNCHANGED <<session, store>>
       ELSE /\ schedules' = schedules \ DeleteOwnMatch(schedules, sid)
            /\ Reply(200, "none", {})
            /\ UNCHANGED <<session, users, vehicles, entries, reminders, fuel_logs, trips,
                           uploads, nextId>>

delete_fuel_log(fid) ==
    /\ Served("delete_fuel_log", fid, [none |-> Absent])
    /\ IF session = NoUser
       THEN AuthRequired /\ UNCHANGED <<session, store>>
       ELSE /\ fuel_logs' = fuel_logs \ DeleteOwnMatch(fuel_logs, fid)
            /\ Reply(200, "none", {})
            /\ UNCHANGED <<session, users, vehicles, entries, reminders, schedules, trips,
                           uploads, nextId>>

delete_trip(tid) ==
    /\ Served("delete_trip", tid, [none |-> Absent])
    /\ IF session = NoUser
       THEN AuthRequired /\ UNCHANGED <<session, store>>
       ELSE /\ trips' = trips \ DeleteOwnMatch(trips, tid)
            /\ Reply(200, "none", {})
            /\ UNCHANGED <<session, users, vehicles, entries, reminders, schedules, fuel_logs,
                           uploads, nextId>>

(***************************************************************************)
(* GET /api/vehicles, /api/entries, /api/schedules, /api/fuel_logs and     *)
(* /api/trips: one SELECT filtered on the user of the session, the rows    *)
(* sent back as stored.  created_at is the time of the INSERT, so ORDER BY *)
(* created_at DESC is the order of descending id.                          *)
(***************************************************************************)
\* request.args.get("vehicle_id", type=int): None unless the text is a number
ArgInt(x) == IF x.t = "numstr" THEN x.v ELSE 0

\* column ILIKE '%q%', a text taken to contain itself and no other text
ILike(column, q) == column.t = "text" /\ column.v = q.v

\* ORDER BY created_at DESC
ByIdDesc(S) == Sorted(S, {p \in S \X S : p[1].id > p[2].id})

\* ORDER BY date DESC, id DESC
ByDateDesc(S) ==
    Sorted(S, {p \in S \X S : \/ p[1].date.v > p[2].date.v
                               \/ (p[1].date.v = p[2].date.v /\ p[1].id > p[2].id)})

\* ORDER BY t.start_date DESC, t.id DESC
ByStartDateDesc(S) ==
    Sorted(S, {p \in S \X S : \/ p[1].start_date.v > p[2].start_date.v
                               \/ (p[1].start_date.v = p[2].start_date.v /\ p[1].id > p[2].id)})

\* JOIN vehicles v ON v.id = r.vehicle_id WHERE v.owner_id=:uid [AND r.vehicle_id=:vid]
ListOfOwnVehicles(rows, args) ==
    {r \in rows : /\ r.vehicle_id \in OwnedVehicleIds
                  /\ ArgInt(args.vehicle_id) # 0 => r.vehicle_id = ArgInt(args.vehicle_id)}

list_vehicles ==
    /\ Served("list_vehicles", 0, [none |-> Absent])
    /\ IF session = NoUser
       THEN AuthRequired
       ELSE Reply(200, "none", ByIdDesc({v \in vehicles : v.owner_id = session}))
    /\ UNCHANGED <<session, store>>

\* the rows of list_entries: [AND (e.service_type ILIKE :qq OR e.description ILIKE :qq)]
ListEntriesRows(args) ==
    {e \in ListOfOwnVehicles(entries, args) :
        Truthy(Get(args.q)) => ILike(e.service_type, args.q) \/ ILike(e.description, args.q)}

list_entries(args) ==
    /\ Served("list_entries", 0, args)
    /\ IF session = NoUser
       THEN AuthRequired
       ELSE Reply(200, "none", ByDateDesc(ListEntriesRows(args)))
    /\ UNCHANGED <<session, store>>

\* ListSchedulesRows with next_due_mileage derived again from the stored fields
ListSchedulesRowsRederived ==
    {[r EXCEPT !.next_due_mileage =
          IF r.last_service_mileage.t # "null" /\ r.interval_km.t # "null"
          THEN IntV(r.last_service_mileage.v + r.interval_km.v)
          ELSE Null] : r \in {x \in schedules : x.user_id = session}}

\* SELECT * FROM service_schedules WHERE user_id=:uid
ListSchedulesRows == {r \in schedules : r.user_id = session}

list_schedules ==
    /\ Served("list_schedules", 0, [none |-> Absent])
    /\ IF session = NoUser
       THEN AuthRequired
       ELSE Reply(200, "none", ByIdDesc(ListSchedulesRows))
    /\ UNCHANGED <<session, store>>

list_fuel_logs(args) ==
    /\ Served("list_fuel_logs", 0, args)
    /\ IF session = NoUser
       THEN AuthRequired
       ELSE Reply(200, "none", ByDateDesc(ListOfOwnVehicles(fuel_logs, args)))
    /\ UNCHANGED <<session, store>>

list_trips(args) ==
    /\ Served("list_trips", 0, args)
    /\ IF session = NoUser
       THEN AuthRequired
       ELSE Reply(200, "none", ByStartDateDesc(ListOfOwnVehicles(trips, args)))
    /\ UNCHANGED <<session, store>>

(***************************************************************************)
(* POST /api/register, /api/login and /api/logout, and GET /uploads/<name>. *)
(* Of the session only user_id is kept; user_name is set and cleared with  *)
(* it.                                                                     *)
(***************************************************************************)
\* RegisterEmail without lower()
RegisterEmailAsTyped(d) == Strip(Or(Get(d.email), EmptyStr))

\* (data.get("email") or "").strip().lower()
RegisterEmail(d) == Lower(Strip(Or(Get(d.email), EmptyStr)))

\* (data.get("name") or "").strip()
RegisterName(d) == Strip(Or(Get(d.name), EmptyStr))

\* data.get("password") or ""
PasswordOf(d) == Or(Get(d.password), EmptyStr)

\* strip() called on a value that is not a string: AttributeError
TextRaises(x) == ~IsStr(Or(Get(x), EmptyStr))

RegisterRow(d) ==
    [ id |-> nextId.users, email |-> RegisterEmail(d), name |-> RegisterName(d),
      password_hash |-> generate_password_hash(PasswordOf(d)) ]

\* email TEXT UNIQUE
EmailInUse(email) == \E u \in users : u.email = email

register(d) ==
    /\ Served("register", 0, d)
    /\ nextId.users <= MaxUsers
    /\ IF TextRaises(d.email) \/ TextRaises(d.name)
       THEN Unhandled /\ UNCHANGED <<session, store>>
       ELSE IF ~(Truthy(RegisterEmail(d)) /\ Truthy(RegisterName(d)) /\ Truthy(PasswordOf(d)))
       THEN Reply(400, "missing_fields", {}) /\ UNCHANGED <<session, store>>
       ELSE IF ~IsStr(PasswordOf(d))
       THEN Unhandled /\ UNCHANGED <<session, store>>
       ELSE /\ nextId' = [nextId EXCEPT !.users = @ + 1]
            /\ IF EmailInUse(RegisterEmail(d))
               THEN Reply(400, "email_in_use", {}) /\ UNCHANGED users
               ELSE Reply(200, "none", {}) /\ users' = users \cup {RegisterRow(d)}
            /\ UNCHANGED <<session, vehicles, entries, reminders, schedules, fuel_logs, trips,
                           uploads>>

\* SELECT id,name,email,password_hash FROM users WHERE email=:e
LoginRows(d) == {u \in users : u.email = RegisterEmail(d)}

\* not row or not check_password_hash(row["password_hash"], password)
InvalidCredentials(d) ==
    \A u \in LoginRows(d) : ~check_password_hash(u.password_hash, PasswordOf(d))

login(d) ==
    /\ Served("login", 0, d)
    /\ IF TextRaises(d.email) \/ (LoginRows(d) # {} /\ ~IsStr(PasswordOf(d)))
       THEN Reply(500, "server_error", {}) /\ UNCHANGED <<session, store>>
       ELSE IF InvalidCredentials(d)
       THEN Reply(401, "invalid_credentials", {}) /\ UNCHANGED <<session, store>>
       ELSE /\ session' = (CHOOSE u \in LoginRows(d) : TRUE).id
            /\ Reply(200, "none", LoginRows(d))
            /\ UNCHANGED store

\* logout leaving the session as it is
SessionKept == session

\* session.clear()
SessionCleared == NoUser

logout ==
    /\ Served("logout", 0, [none |-> Absent])
    /\ IF session = NoUser
       THEN AuthRequired /\ UNCHANGED <<session, store>>
       ELSE /\ session' = SessionCleared
            /\ Reply(200, "none", {})
            /\ UNCHANGED store

\* send_from_directory(UPLOAD_DIR, filename)
get_upload(filename) ==
    /\ Served("get_upload", 0, [filename |-> filename])
    /\ IF session = NoUser
       THEN AuthRequired
       ELSE IF filename \in uploads
       THEN Reply(200, "none", {filename})
       ELSE Reply(404, "not_found", {})
    /\ UNCHANGED <<session, store>>

(***************************************************************************)
(* Request bodies of the schedule handlers.                                *)
(***************************************************************************)
SchedBody(vid, kind, im, ik, ld, lm, nd, nk) ==
    [ vehicle_id           |-> vid,
      kind                 |-> kind,
      interval_months      |-> im,
      interval_km          |-> ik,
      last_service_date    |-> ld,
      last_service_mileage |-> lm,
      next_due_date        |-> nd,
      next_due_mileage     |-> nk ]

\* "Wymiana oleju"
Oil == Text(1)

\* "abc": neither digits nor a date
Garbage == Text(9)

LastDates ==
    { Absent, Garbage, DateStr(2023, 2, 30),
      DateStr(2024, 1, 31), DateStr(2023, 1, 31), DateStr(2024, 11, 30),
      DateStr(2024, 1, 15), DateStr(2099, 1, 31), DateStr(9999, 6, 15) }

MonthIntervals == {Absent, IntV(0), IntV(1), IntV(3), IntV(12), IntV(13), Garbage}

LastMileages == {Absent, IntV(0), IntV(50000), Garbage}

KmIntervals == {Absent, IntV(0), IntV(15000), Garbage}

\* bodies that vary the date axis, without and with an explicit next_due_date
DateBodies ==
    { SchedBody(Absent, Oil, im, Absent, ld, Absent, Absent, Absent) :
        im \in MonthIntervals, ld \in LastDates }
    \cup
    { SchedBody(Absent, Oil, im, Absent, ld, Absent, nd, Absent) :
        im \in {Absent, IntV(12)},
        ld \in {Absent, DateStr(2024, 1, 15)},
        nd \in {EmptyStr, DateStr(2099, 1, 1)} }

\* bodies that vary the mileage axis, without and with an explicit next_due_mileage
KmBodies ==
    { SchedBody(Absent, Oil, Absent, ik, Absent, lm, Absent, Absent) :
        ik \in KmIntervals, lm \in LastMileages }
    \cup
    { SchedBody(Absent, Oil, Absent, ik, Absent, lm, Absent, nk) :
        ik \in {Absent, IntV(15000)},
        lm \in {Absent, IntV(50000)},
        nk \in {IntV(0), IntV(70000)} }

\* bodies that vary kind and vehicle_id, with both axes derivable or neither
KindBodies ==
    { SchedBody(vid, Oil, IntV(12), IntV(15000), DateStr(2024, 1, 15), NumStr(50000), Absent, Absent) :
        vid \in {IntV(1), IntV(7)} }
    \cup
    { SchedBody(Absent, kind, Absent, Absent, Absent, Absent, Absent, Absent) :
        kind \in {Absent, Null, EmptyStr, BlankStr, Oil, PadText(1)} }
    \cup
    { SchedBody(Absent, Absent, Absent, Absent, Absent, Absent, Absent, Absent) }

SchedBodies == DateBodies \cup KmBodies \cup KindBodies

\* bodies of partial updates: the same fields without kind
UpdateBodies ==
    {[b EXCEPT !.kind = Absent] : b \in DateBodies \cup KmBodies} \cup KindBodies

SchedIds == 1 .. MaxRows

UserRow(id, email, name, password) ==
    [id |-> id, email |-> email, name |-> name,
     password_hash |-> generate_password_hash(password)]

\* the accounts of the two users the stores below belong to
RegisteredUsers == {UserRow(1, Text(1), Text(11), Text(21)),
                    UserRow(2, Text(2), Text(12), Text(22))}

(***************************************************************************)
(* The schedule engine on its own: a logged-in (or anonymous) client       *)
(* creating and updating schedules; user 1 owns vehicle 1.                 *)
(***************************************************************************)
NoRequest == [op |-> "none", id |-> 0, d |-> [none |-> Absent]]

NoResponse == [status |-> 0, error |-> "none", rows |-> {}]

Vehicle(id, owner, make, model) ==
    [ id |-> id, owner_id |-> owner, make |-> make, model |-> model,
      year |-> Null, fuel |-> EmptyStr, reg_plate |-> EmptyStr ]

InitSched ==
    /\ session \in {NoUser, 1}
    /\ vehicles = {Vehicle(1, 1, Text(2), Text(3))}
    /\ entries = {}
    /\ reminders = {}
    /\ schedules = {}
    /\ fuel_logs = {}
    /\ trips = {}
    /\ uploads = {}
    /\ nextId = [vehicles |-> 2, entries |-> 1, reminders |-> 1, schedules |-> 1,
                 fuel_logs |-> 1, trips |-> 1, users |-> 3]
    /\ users = RegisteredUsers
    /\ stats_run = NoRun
    /\ steps = 0
    /\ req = NoRequest
    /\ resp = NoResponse

AddScheduleStep == \E d \in SchedBodies : add_schedule(d)

UpdateScheduleStep == \E sid \in SchedIds : \E d \in UpdateBodies : update_schedule(sid, d)

NextSched == AddScheduleStep \/ UpdateScheduleStep

SpecSched == InitSched /\ [][NextSched]_vars

(***************************************************************************)
(* The validating create handlers together: a client that registers a      *)
(* vehicle and creates entries, reminders and schedules, with bodies that   *)
(* leave out or blank the required fields.                                 *)
(***************************************************************************)
VehicleBody(make, model, year) ==
    [make |-> make, model |-> model, year |-> year, fuel |-> Absent, reg_plate |-> Absent]

VehicleBodies ==
    { VehicleBody(make, model, Absent) :
        make \in {Absent, EmptyStr, BlankStr, Text(2)},
        model \in {Absent, EmptyStr, PadText(3)} }
    \cup
    { VehicleBody(Text(2), Text(3), year) : year \in {IntV(2020), Garbage} }

EntryBody(vid, date, mileage, service_type, cost) ==
    [ vehicle_id |-> vid, date |-> date, mileage |-> mileage,
      service_type |-> service_type, description |-> Absent, cost |-> cost ]

\* "run.exe": an extension outside ALLOWED_EXTENSIONS
RefusedFile == Text(22)

EntryBodies ==
    { EntryBody(vid, Absent, Absent, st, Absent) :
        vid \in {Absent, NumStr(1), Garbage, IntV(7)},
        st \in {Absent, EmptyStr, BlankStr, Text(4)} }
    \cup
    { EntryBody(IntV(1), date, mileage, st, cost) :
        date \in {DateStr(2024, 1, 15), Garbage},
        mileage \in {IntV(1000), Garbage},
        st \in {EmptyStr, Text(4)},
        cost \in {NumStr(100), Garbage} }

EntryFiles == {NoFile, RefusedFile} \cup AllowedFiles

ReminderBody(vid, title, due_date, days) ==
    [ vehicle_id |-> vid, title |-> title, due_date |-> due_date,
      due_mileage |-> Absent, notify_email |-> Absent, notify_before_days |-> days ]

ReminderBodies ==
    { ReminderBody(vid, title, Absent, Absent) :
        vid \in {Absent, IntV(1), IntV(7)},
        title \in {Absent, EmptyStr, BlankStr, Text(5)} }
    \cup
    { ReminderBody(Absent, title, due_date, days) :
        title \in {EmptyStr, Text(5)},
        due_date \in {DateStr(2024, 1, 15), Garbage},
        days \in {IntV(3), Garbage} }

InitValid ==
    /\ session \in {NoUser, 1}
    /\ vehicles = {}
    /\ entries = {}
    /\ reminders = {}
    /\ schedules = {}
    /\ fuel_logs = {}
    /\ trips = {}
    /\ uploads = {}
    /\ nextId = [vehicles |-> 1, entries |-> 1, reminders |-> 1, schedules |-> 1,
                 fuel_logs |-> 1, trips |-> 1, users |-> 3]
    /\ users = RegisteredUsers
    /\ stats_run = NoRun
    /\ steps = 0
    /\ req = NoRequest
    /\ resp = NoResponse

AddVehicleStep == \E d \in VehicleBodies : add_vehicle(d)

AddEntryStep == \E d \in EntryBodies : \E file \in EntryFiles : add_entry(d, file)

AddReminderStep == \E d \in ReminderBodies : add_reminder(d)

AddKindStep == \E d \in KindBodies : add_schedule(d)

NextValid == AddVehicleStep \/ AddEntryStep \/ AddReminderStep \/ AddKindStep

SpecValid == InitValid /\ [][NextValid]_vars

(***************************************************************************)
(* Reminders read back: a client that creates, edits and lists reminders   *)
(* whose due dates lie before, on and after today.                         *)
(***************************************************************************)
DueDates == {DateStr(2024, 12, 31), DateStr(2025, 6, 14), Today, DateStr(2025, 6, 16)}

DueBody(due_date, due_mileage, days) ==
    [ReminderBody(Absent, Text(5), due_date, days) EXCEPT !.due_mileage = due_mileage]

DueBodies ==
    { DueBody(due_date, due_mileage, Absent) :
        due_date \in {Absent, Null} \cup DueDates,
        due_mileage \in {Absent, IntV(1000)} }
    \cup
    { DueBody(due_date, Absent, IntV(0)) : due_date \in {Null, Today} }

UpdReminderBody(title, due_date, due_mileage, completed_at) ==
    [ title |-> title, due_date |-> due_date, due_mileage |-> due_mileage,
      notify_email |-> Absent, notify_before_days |-> Absent,
      completed_at |-> completed_at ]

UpdReminderBodies ==
    { UpdReminderBody(Absent, due_date, Absent, Absent) :
        due_date \in {Absent, Null, Today, DateStr(2025, 6, 16), Garbage} }
    \cup
    { UpdReminderBody(title, Absent, due_mileage, completed_at) :
        title \in {Absent, Null},
        due_mileage \in {Absent, IntV(1000)},
        completed_at \in {Absent, DateStr(2025, 6, 1)} }

ReminderIds == 1 .. MaxRows

\* a reminder the client has created and edited earlier
StoredReminder(due_date, due_mileage, completed_at) ==
    [ id |-> 1, user_id |-> 1, vehicle_id |-> Null, title |-> Text(5),
      due_date |-> due_date, due_mileage |-> due_mileage, notify_email |-> FALSE,
      notify_before_days |-> IntV(7), completed_at |-> completed_at ]

StoredReminders ==
    { StoredReminder(due_date, due_mileage, completed_at) :
        due_date \in {Null} \cup {ColDate(x) : x \in DueDates},
        due_mileage \in {Null, IntV(1000)},
        completed_at \in {Null, ColDate(DateStr(2025, 6, 1))} }

InitRemind ==
    /\ session \in {NoUser, 1}
    /\ vehicles = {Vehicle(1, 1, Text(2), Text(3))}
    /\ entries = {}
    /\ \/ reminders = {}
       \/ session = 1 /\ \E r \in StoredReminders : reminders = {r}
    /\ schedules = {}
    /\ fuel_logs = {}
    /\ trips = {}
    /\ uploads = {}
    /\ nextId = [vehicles |-> 2, entries |-> 1, reminders |-> 1 + Cardinality(reminders),
                 schedules |-> 1, fuel_logs |-> 1, trips |-> 1, users |-> 3]
    /\ users = RegisteredUsers
    /\ stats_run = NoRun
    /\ steps = 0
    /\ req = NoRequest
    /\ resp = NoResponse

AddDueStep == \E d \in DueBodies : add_reminder(d)

UpdateReminderStep == \E rid \in ReminderIds : \E d \in UpdReminderBodies : update_reminder(rid, d)

ListRemindersStep == list_reminders

NextRemind == AddDueStep \/ UpdateReminderStep \/ ListRemindersStep

SpecRemind == InitRemind /\ [][NextRemind]_vars

(***************************************************************************)
(* The statistics read over a store the users have filled: user 1 owns     *)
(* vehicles 1 and 2, user 2 owns vehicle 3.  The store starts with any     *)
(* part of the entries and fuel logs below, as create-entry, update-entry  *)
(* and create-fuel-log leave them; the client edits entries and reads the  *)
(* statistics.                                                             *)
(***************************************************************************)
StoredEntry(id, vid, date, mileage, cost) ==
    [ id |-> id, vehicle_id |-> vid, date |-> ColDate(date), mileage |-> mileage,
      service_type |-> Text(4), description |-> EmptyStr, cost |-> cost,
      attachment |-> NoAttachment ]

StoredEntries ==
    { StoredEntry(1, 1, DateStr(2025, 1, 10), IntV(1000), IntV(100)),
      StoredEntry(2, 2, DateStr(2025, 1, 10), Null, Null),
      StoredEntry(3, 2, DateStr(2025, 6, 20), IntV(5000), IntV(50)),
      StoredEntry(4, 3, DateStr(2024, 3, 5), IntV(300), IntV(70)) }

StoredFuelLog(id, uid, vid, date, liters, price, odometer, full_tank) ==
    [ id |-> id, user_id |-> uid, vehicle_id |-> vid, date |-> ColDate(date),
      station |-> EmptyStr, liters |-> IntV(liters), price_per_liter |-> IntV(price),
      total_cost |-> IntV(liters * price), odometer |-> odometer, full_tank |-> full_tank ]

StoredFuelLogs ==
    { StoredFuelLog(1, 1, 1, DateStr(2025, 2, 1), 40, 5, IntV(10000), TRUE),
      StoredFuelLog(2, 1, 1, DateStr(2025, 2, 15), 38, 5, IntV(10500), FALSE),
      StoredFuelLog(3, 1, 1, DateStr(2025, 1, 10), 35, 5, IntV(11200), TRUE),
      StoredFuelLog(4, 1, 2, DateStr(2025, 2, 1), 20, 6, Null, TRUE),
      StoredFuelLog(5, 2, 3, DateStr(2025, 2, 15), 30, 4, IntV(500), TRUE),
      StoredFuelLog(6, 1, 2, DateStr(2025, 3, 1), 25, 6, IntV(20000), FALSE) }

StatsVehicleRows ==
    { Vehicle(1, 1, Text(2), Text(3)), Vehicle(2, 1, Text(2), Text(6)),
      Vehicle(3, 2, Text(2), Text(3)) }

UpdEntryBody(date, mileage, cost) ==
    [ date |-> date, mileage |-> mileage, service_type |-> Absent,
      description |-> Absent, cost |-> cost ]

UpdEntryBodies ==
    { UpdEntryBody(Absent, Absent, Absent),
      UpdEntryBody(Absent, Absent, Null),
      UpdEntryBody(Absent, Null, Absent),
      UpdEntryBody(DateStr(2025, 8, 1), Absent, Absent),
      UpdEntryBody(Absent, Absent, Garbage) }

EntryIds == 1 .. MaxRows

InitStats ==
    /\ vehicles = StatsVehicleRows
    /\ entries \in SUBSET StoredEntries
    /\ fuel_logs \in SUBSET StoredFuelLogs
    /\ \/ session = 1
       \/ session \in {NoUser, 2} /\ entries = StoredEntries /\ fuel_logs = StoredFuelLogs
    /\ reminders = {}
    /\ schedules = {}
    /\ trips = {}
    /\ uploads = {}
    /\ nextId = [vehicles |-> 4, entries |-> 5, reminders |-> 1, schedules |-> 1,
                 fuel_logs |-> 7, trips |-> 1, users |-> 3]
    /\ users = RegisteredUsers
    /\ stats_run = NoRun
    /\ steps = 0
    /\ req = NoRequest
    /\ resp = NoResponse

UpdateEntryStep == \E id \in EntryIds : \E d \in UpdEntryBodies : update_entry(id, d)

StatsStep == stats

NextStats == UpdateEntryStep \/ StatsStep

SpecStats == InitStats /\ [][NextStats]_vars

(***************************************************************************)
(* Two users' vehicles: user 1 owns vehicle 1 and user 2 owns vehicle 2;   *)
(* the client, logged in as either of them or not at all, creates service  *)
(* entries, fuel logs and trips for its own vehicle, for the other user's  *)
(* and for a vehicle that does not exist.                                  *)
(***************************************************************************)
\* the id of no vehicle
NoSuchVehicle == IntV(7)

NamedVehicles == {IntV(1), NumStr(2), NoSuchVehicle}

OwnEntryBodies ==
    { EntryBody(vid, Absent, Absent, Text(4), Absent) : vid \in NamedVehicles \cup {Absent} }
    \cup
    { EntryBody(vid, DateStr(2025, 1, 10), IntV(1000), Text(4), IntV(100)) : vid \in NamedVehicles }

FuelBody(vid, date, liters, price, total_cost, odometer) ==
    [ vehicle_id |-> vid, date |-> date, station |-> Absent, liters |-> liters,
      price_per_liter |-> price, total_cost |-> total_cost, odometer |-> odometer,
      full_tank |-> Absent ]

FuelBodies ==
    { FuelBody(vid, Absent, liters, IntV(5), Absent, Absent) :
        vid \in NamedVehicles \cup {Absent, IntV(0), Garbage},
        liters \in {IntV(40), Absent} }
    \cup
    { FuelBody(IntV(1), date, NumStr(40), IntV(5), total_cost, odometer) :
        date \in {DateStr(2025, 2, 1), Garbage},
        total_cost \in {IntV(190), Garbage},
        odometer \in {IntV(10000), EmptyStr} }
    \cup
    { FuelBody(IntV(1), Absent, Garbage, IntV(5), Absent, Absent) }

TripBody(vid, start_date, distance_km) ==
    [ vehicle_id |-> vid, start_date |-> start_date, end_date |-> Absent,
      start_time |-> Absent, end_time |-> Absent, start_location |-> Absent,
      end_location |-> Absent, distance_km |-> distance_km,
      avg_consumption |-> Absent, planned |-> Absent, notes |-> Absent ]

TripBodies ==
    { TripBody(vid, Absent, Absent) : vid \in NamedVehicles \cup {Absent, Garbage} }
    \cup
    { TripBody(IntV(1), start_date, distance_km) :
        start_date \in {DateStr(2025, 3, 1), Garbage},
        distance_km \in {IntV(120), Garbage} }

InitOwn ==
    /\ session \in {NoUser, 1, 2}
    /\ vehicles = {Vehicle(1, 1, Text(2), Text(3)), Vehicle(2, 2, Text(2), Text(6))}
    /\ entries = {}
    /\ reminders = {}
    /\ schedules = {}
    /\ fuel_logs = {}
    /\ trips = {}
    /\ uploads = {}
    /\ nextId = [vehicles |-> 3, entries |-> 1, reminders |-> 1, schedules |-> 1,
                 fuel_logs |-> 1, trips |-> 1, users |-> 3]
    /\ users = RegisteredUsers
    /\ stats_run = NoRun
    /\ steps = 0
    /\ req = NoRequest
    /\ resp = NoResponse

AddOwnEntryStep == \E d \in OwnEntryBodies : add_entry(d, NoFile)

AddFuelLogStep == \E d \in FuelBodies : add_fuel_log(d)

AddTripStep == \E d \in TripBodies : add_trip(d)

NextOwn == AddOwnEntryStep \/ AddFuelLogStep \/ AddTripStep

SpecOwn == InitOwn /\ [][NextOwn]_vars

(***************************************************************************)
(* Schedules and reminders of two owners: user 1 owns vehicle 1, user 2    *)
(* owns vehicle 2, and the client of either names either vehicle, no       *)
(* vehicle, or a vehicle that does not exist.                              *)
(***************************************************************************)
LinkSchedBodies ==
    { SchedBody(vid, Oil, im, Absent, Absent, Absent, Absent, Absent) :
        vid \in NamedVehicles \cup {Absent}, im \in {Absent, IntV(12)} }

LinkUpdateBodies ==
    { SchedBody(vid, Absent, Absent, Absent, Absent, Absent, Absent, Absent) :
        vid \in NamedVehicles \cup {Null} }
    \cup {SchedBody(Absent, Absent, IntV(6), Absent, Absent, Absent, Absent, Absent)}

LinkReminderBodies ==
    { ReminderBody(vid, Text(5), Absent, Absent) : vid \in NamedVehicles \cup {Absent} }

AddLinkedScheduleStep == \E d \in LinkSchedBodies : add_schedule(d)

UpdateLinkedScheduleStep == \E sid \in SchedIds, d \in LinkUpdateBodies : update_schedule(sid, d)

AddLinkedReminderStep == \E d \in LinkReminderBodies : add_reminder(d)

NextLink == AddLinkedScheduleStep \/ UpdateLinkedScheduleStep \/ AddLinkedReminderStep

SpecLink == InitOwn /\ [][NextLink]_vars

(***************************************************************************)
(* A store holding records of two owners: user u owns vehicle u and one    *)
(* service entry, reminder, fuel log and trip with the id u on it, and the *)
(* schedules are either these or still to be created.  The client of       *)
(* either user updates and deletes by id, id 3 being no record.            *)
(***************************************************************************)
ScopeIds == {1, 2, 3}

ScopeReminder(u) ==
    [StoredReminder(Null, Null, Null) EXCEPT !.id = u, !.user_id = u, !.vehicle_id = IntV(u)]

ScopeSchedule(u) ==
    [ id |-> u, user_id |-> u, vehicle_id |-> IntV(u), kind |-> Oil,
      interval_months |-> IntV(12), interval_km |-> IntV(15000),
      last_service_date |-> ColDate(DateStr(2025, 1, 10)),
      last_service_mileage |-> IntV(50000),
      next_due_date |-> ColDate(DateStr(2026, 1, 10)), next_due_mileage |-> IntV(70000) ]

ScopeTrip(u) ==
    [ id |-> u, user_id |-> u, vehicle_id |-> u,
      start_date |-> ColDate(DateStr(2025, 3, 1)), end_date |-> Null,
      start_time |-> Null, end_time |-> Null, start_location |-> EmptyStr,
      end_location |-> EmptyStr, distance_km |-> IntV(120), avg_consumption |-> Null,
      planned |-> FALSE, notes |-> EmptyStr ]

ScopeEntryBodies ==
    { UpdEntryBody(Absent, IntV(2000), Absent), UpdEntryBody(Absent, Absent, Garbage) }

ScopeReminderBodies ==
    { UpdReminderBody(Text(6), Absent, Absent, Absent),
      UpdReminderBody(Absent, Garbage, Absent, Absent) }

InitScope ==
    /\ session \in {NoUser, 1, 2}
    /\ vehicles = {Vehicle(u, u, Text(2), Text(3)) : u \in Users}
    /\ entries = {StoredEntry(u, u, DateStr(2025, 1, 10), IntV(1000), IntV(100)) : u \in Users}
    /\ reminders = {ScopeReminder(u) : u \in Users}
    /\ schedules \in {{}, {ScopeSchedule(u) : u \in Users}}
    /\ fuel_logs = {StoredFuelLog(u, u, u, DateStr(2025, 2, 1), 40, 5, IntV(10000), TRUE) :
                      u \in Users}
    /\ trips = {ScopeTrip(u) : u \in Users}
    /\ uploads = {}
    /\ nextId = [vehicles |-> 3, entries |-> 3, reminders |-> 3,
                 schedules |-> 1 + Cardinality(schedules), fuel_logs |-> 3, trips |-> 3,
                 users |-> 3]
    /\ users = RegisteredUsers
    /\ stats_run = NoRun
    /\ steps = 0
    /\ req = NoRequest
    /\ resp = NoResponse

DeleteVehicleStep == \E id \in ScopeIds : delete_vehicle(id)

DeleteEntryStep == \E id \in ScopeIds : delete_entry(id)

DeleteReminderStep == \E id \in ScopeIds : delete_reminder(id)

DeleteScheduleStep == \E id \in ScopeIds : delete_schedule(id)

DeleteFuelLogStep == \E id \in ScopeIds : delete_fuel_log(id)

DeleteTripStep == \E id \in ScopeIds : delete_trip(id)

UpdateScopedEntryStep == \E id \in ScopeIds, d \in ScopeEntryBodies : update_entry(id, d)

UpdateScopedReminderStep ==
    \E id \in ScopeIds, d \in ScopeReminderBodies : update_reminder(id, d)

UpdateScopedScheduleStep ==
    \E id \in ScopeIds, d \in LinkUpdateBodies : update_schedule(id, d)

NextScope ==
    \/ DeleteVehicleStep \/ DeleteEntryStep \/ DeleteReminderStep \/ DeleteScheduleStep
    \/ DeleteFuelLogStep \/ DeleteTripStep
    \/ UpdateScopedEntryStep \/ UpdateScopedReminderStep \/ UpdateScopedScheduleStep
    \/ AddLinkedScheduleStep

SpecScope == InitScope /\ [][NextScope]_vars

(***************************************************************************)
(* Schedules created and updated without an explicit next_due_date or      *)
(* next_due_mileage in any request.                                        *)
(***************************************************************************)
PlainSchedBodies ==
    { SchedBody(Absent, Oil, im, ik, ld, lm, Absent, Absent) :
        im \in {Absent, IntV(12)}, ik \in {Absent, IntV(15000)},
        ld \in {Absent, DateStr(2024, 1, 15)}, lm \in {Absent, IntV(50000)} }

PlainUpdateBodies ==
    { SchedBody(Absent, Absent, im, ik, ld, lm, Absent, Absent) :
        im \in {Absent, Null, IntV(6)}, ik \in {Absent, Null},
        ld \in {Absent, Null, DateStr(2024, 3, 31)}, lm \in {Absent, Null} }

AddPlainScheduleStep == \E d \in PlainSchedBodies : add_schedule(d)

UpdatePlainScheduleStep ==
    \E sid \in SchedIds, d \in PlainUpdateBodies : update_schedule(sid, d)

NextPlain == AddPlainScheduleStep \/ UpdatePlainScheduleStep

SpecPlain == InitSched /\ [][NextPlain]_vars

(***************************************************************************)
(* The service book of one vehicle: user 1 adds entries to vehicle 1 with  *)
(* and without a mileage, edits them, and reads the statistics.            *)
(***************************************************************************)
BookEntryBodies ==
    { EntryBody(IntV(1), DateStr(2025, 1, 10), mileage, st, cost) :
        mileage \in {Absent, Null, IntV(1000), IntV(5000)},
        st \in {EmptyStr, Text(4)},
        cost \in {Absent, IntV(100)} }

BookUpdateBodies ==
    { [UpdEntryBody(Absent, mileage, Absent) EXCEPT !.service_type = st] :
        mileage \in {Absent, IntV(2000)},
        st \in {Absent, Null, EmptyStr, BlankStr, Text(7)} }

BookIds == 1 .. MaxEntries

AddBookEntryStep == \E d \in BookEntryBodies : add_entry(d, NoFile)

UpdateBookEntryStep == \E id \in BookIds, d \in BookUpdateBodies : update_entry(id, d)

NextBook == AddBookEntryStep \/ UpdateBookEntryStep \/ StatsStep

SpecBook == InitSched /\ [][NextBook]_vars

(***************************************************************************)
(* The same store read: the client of either user lists every table with   *)
(* and without a vehicle filter and reads the statistics, between updates  *)
(* of schedules and reminders.                                             *)
(***************************************************************************)
ListArgs(vehicle_id, q) == [vehicle_id |-> vehicle_id, q |-> q]

VehicleArgs == {Absent, NumStr(1), NumStr(0), Garbage}

ReadUpdateBodies ==
    { SchedBody(Absent, Absent, Absent, Null, Absent, Absent, Absent, Absent),
      SchedBody(Absent, Absent, IntV(6), Absent, DateStr(2024, 3, 31), Absent, Absent, Absent) }

ListVehiclesStep == list_vehicles

ListEntriesStep ==
    \E vehicle_id \in VehicleArgs, q \in {Absent, EmptyStr, Text(4), Text(8)} :
        list_entries(ListArgs(vehicle_id, q))

ListSchedulesStep == list_schedules

ListFuelLogsStep == \E vehicle_id \in VehicleArgs : list_fuel_logs(ListArgs(vehicle_id, Absent))

ListTripsStep == \E vehicle_id \in VehicleArgs : list_trips(ListArgs(vehicle_id, Absent))

UpdateReadScheduleStep == \E id \in Users, d \in ReadUpdateBodies : update_schedule(id, d)

NextRead ==
    \/ ListVehiclesStep \/ ListEntriesStep \/ ListRemindersStep \/ ListSchedulesStep
    \/ ListFuelLogsStep \/ ListTripsStep \/ StatsStep
    \/ UpdateReadScheduleStep \/ UpdateScopedReminderStep \/ AddLinkedScheduleStep

SpecRead == InitScope /\ [][NextRead]_vars

(***************************************************************************)
(* A statistics read racing with the writes of another connection of the   *)
(* same user: user 1 owns vehicle 1 with one service entry.                *)
(***************************************************************************)
RaceEntryBodies ==
    { EntryBody(IntV(1), date, Absent, Text(4), IntV(40)) :
        date \in {DateStr(2025, 1, 10), DateStr(2025, 2, 1)} }

RaceFuelBodies ==
    { FuelBody(IntV(1), DateStr(2025, 2, 1), IntV(40), IntV(5), Absent, Absent) }

InitRace ==
    /\ session \in {NoUser, 1}
    /\ vehicles = {Vehicle(1, 1, Text(2), Text(3))}
    /\ entries = {StoredEntry(1, 1, DateStr(2025, 1, 10), IntV(1000), IntV(100))}
    /\ reminders = {}
    /\ schedules = {}
    /\ fuel_logs = {}
    /\ trips = {}
    /\ uploads = {}
    /\ nextId = [vehicles |-> 2, entries |-> 2, reminders |-> 1, schedules |-> 1,
                 fuel_logs |-> 1, trips |-> 1, users |-> 3]
    /\ users = RegisteredUsers
    /\ stats_run = NoRun
    /\ steps = 0
    /\ req = NoRequest
    /\ resp = NoResponse

AddRacingEntryStep == \E d \in RaceEntryBodies : add_entry(d, NoFile)

UpdateRacingEntryStep == update_entry(1, UpdEntryBody(Absent, Absent, IntV(70)))

DeleteRacingEntryStep == delete_entry(1)

AddRacingFuelLogStep == \E d \in RaceFuelBodies : add_fuel_log(d)

DeleteRacingFuelLogStep == delete_fuel_log(1)

NextRace ==
    \/ stats_statement \/ stats_reply
    \/ AddRacingEntryStep \/ UpdateRacingEntryStep \/ DeleteRacingEntryStep
    \/ AddRacingFuelLogStep \/ DeleteRacingFuelLogStep

SpecRace == InitRace /\ [][NextRace]_vars

(***************************************************************************)
(* Accounts: clients register and log in with addresses spelled in lower   *)
(* case, in capitals and with blanks around them, starting from no account *)
(* or from the two accounts above.                                         *)
(***************************************************************************)
AccountBody(email, name, password) ==
    [email |-> email, name |-> name, password |-> password]

RegisterBodies ==
    { AccountBody(email, Text(13), Text(23)) :
        email \in {Absent, Null, EmptyStr, BlankStr, IntV(5), Text(1), UpText(1),
                   PadText(1), PadUpText(1), Text(3), UpText(3)} }
    \cup
    { AccountBody(Text(3), name, password) :
        name \in {Absent, EmptyStr, BlankStr, PadText(13)},
        password \in {Absent, EmptyStr, BlankStr, IntV(5), Text(23)} }

LoginBodies ==
    { AccountBody(email, Absent, password) :
        email \in {Absent, IntV(5), Text(1), PadUpText(1), Text(3), Text(4)},
        password \in {Absent, IntV(5), Text(21), Text(23)} }

InitAccounts ==
    /\ session = NoUser
    /\ users \in {{}, RegisteredUsers}
    /\ vehicles = {}
    /\ entries = {}
    /\ reminders = {}
    /\ schedules = {}
    /\ fuel_logs = {}
    /\ trips = {}
    /\ uploads = {}
    /\ nextId = [vehicles |-> 1, entries |-> 1, reminders |-> 1, schedules |-> 1,
                 fuel_logs |-> 1, trips |-> 1, users |-> 1 + Cardinality(users)]
    /\ stats_run = NoRun
    /\ steps = 0
    /\ req = NoRequest
    /\ resp = NoResponse

RegisterStep == \E d \in RegisterBodies : register(d)

LoginStep == \E d \in LoginBodies : login(d)

LogoutStep == logout

NextAccounts == RegisterStep \/ LoginStep \/ LogoutStep

SpecAccounts == InitAccounts /\ [][NextAccounts]_vars

(***************************************************************************)
(* The session gate: a client without a session, or with the session of    *)
(* user 1, calls every route; the store holds no vehicle yet or the        *)
(* vehicles of the two users.                                              *)
(***************************************************************************)
GateAccountBodies ==
    { AccountBody(email, Text(13), password) :
        email \in {Text(1), Text(3)}, password \in {Text(21), Text(23)} }

InitGate ==
    /\ session \in {NoUser, 1}
    /\ users = RegisteredUsers
    /\ vehicles \in {{}, {Vehicle(u, u, Text(2), Text(3)) : u \in Users}}
    /\ entries = {}
    /\ reminders = {}
    /\ schedules = {}
    /\ fuel_logs = {}
    /\ trips = {}
    /\ uploads = {}
    /\ nextId = [vehicles |-> 1 + Cardinality(vehicles), entries |-> 1, reminders |-> 1,
                 schedules |-> 1, fuel_logs |-> 1, trips |-> 1, users |-> 3]
    /\ stats_run = NoRun
    /\ steps = 0
    /\ req = NoRequest
    /\ resp = NoResponse

GateAccountStep ==
    \/ \E d \in GateAccountBodies : register(d)
    \/ \E d \in GateAccountBodies : login(d)
    \/ logout

GateVehicleStep ==
    \/ list_vehicles
    \/ add_vehicle(VehicleBody(Text(2), Text(3), Absent))
    \/ delete_vehicle(1)

GateEntryStep ==
    \/ list_entries(ListArgs(Absent, Absent))
    \/ add_entry(EntryBody(IntV(1), Absent, Absent, Text(4), Absent), Text(21))
    \/ update_entry(1, UpdEntryBody(Absent, IntV(2000), Absent))
    \/ delete_entry(1)
    \/ get_upload([ts |-> 0, fname |-> 21])

GateReminderStep ==
    \/ list_reminders
    \/ add_reminder(ReminderBody(Absent, Text(5), Absent, Absent))
    \/ update_reminder(1, UpdReminderBody(Text(6), Absent, Absent, Absent))
    \/ delete_reminder(1)

GateScheduleStep ==
    \/ list_schedules
    \/ add_schedule(SchedBody(Absent, Oil, Absent, Absent, Absent, Absent, Absent, Absent))
    \/ update_schedule(1, SchedBody(Absent, Absent, IntV(6), Absent, Absent, Absent, Absent, Absent))
    \/ delete_schedule(1)

GateFuelLogStep ==
    \/ list_fuel_logs(ListArgs(Absent, Absent))
    \/ add_fuel_log(FuelBody(IntV(1), Absent, IntV(40), IntV(5), Absent, Absent))
    \/ delete_fuel_log(1)

GateTripStep ==
    \/ list_trips(ListArgs(Absent, Absent))
    \/ add_trip(TripBody(IntV(1), Absent, Absent))
    \/ delete_trip(1)

NextGate ==
    \/ GateAccountStep \/ GateVehicleStep \/ GateEntryStep \/ GateReminderStep
    \/ GateScheduleStep \/ GateFuelLogStep \/ GateTripStep \/ StatsStep

SpecGate == InitGate /\ [][NextGate]_vars

(***************************************************************************)
(* Reference definitions the properties are stated with.                   *)
(***************************************************************************)
\* Gregorian leap rule: divisible by 4 and not by 100 unless by 400
RefIsLeap(y) ==
    IF y % 400 = 0 THEN TRUE
    ELSE IF y % 100 = 0 THEN FALSE
    ELSE y % 4 = 0

RefLastDay(y, m) ==
    CASE m = 2 -> (IF RefIsLeap(y) THEN 29 ELSE 28)
      [] m \in {4, 6, 9, 11} -> 30
      [] OTHER -> 31

\* n encodes a calendar date
RefValidDate(n) ==
    /\ YearOf(n) >= 1
    /\ MonthOf(n) \in 1 .. 12
    /\ DayOf(n) \in 1 .. RefLastDay(YearOf(n), MonthOf(n))

\* calendar months from year 0 to the month of n
RefMonthCount(n) == YearOf(n) * 12 + MonthOf(n) - 1

\* r is base advanced by that many calendar months, the day clamped
IsAdvanced(base, months, r) ==
    /\ RefValidDate(r)
    /\ RefMonthCount(r) = RefMonthCount(base) + months
    /\ DayOf(r) = Min(DayOf(base), RefLastDay(YearOf(r), MonthOf(r)))

\* the year the reference lands in
RefTargetYear(base, months) == (RefMonthCount(base) + months) \div 12

\* the key carries a value
Present(x) == x.t \notin {"absent", "null"}

\* the value is a string naming a calendar date
IsDateValue(x) == x.t = "datestr" /\ RefValidDate(x.v)

\* the value is an integer of at least lo
IsIntFrom(x, lo) == x.t = "int" /\ x.v >= lo

Succeeded(op) == req.op = op /\ resp.status = 200

\* the row a successful add_schedule has inserted
Created == {r \in schedules : r.id = nextId.schedules - 1}

\* the rows a successful update_schedule has written
Updated == {r \in schedules : r.id = req.id /\ r.user_id = session}

Written == IF req.op = "add_schedule" THEN Created ELSE Updated

StoredDate(y, m, d) == V("date", y * 10000 + m * 100 + d)

(***************************************************************************)
(* C1                                                                      *)
(***************************************************************************)
\* the request derives next_due_date from a valid date and an interval >= 1
C1_Derives ==
    /\ (Succeeded("add_schedule") \/ Succeeded("update_schedule"))
    /\ IsDateValue(req.d.last_service_date)
    /\ IsIntFrom(req.d.interval_months, 1)
    /\ (req.op = "update_schedule" => ~Present(req.d.next_due_date))

C1_IsReference ==
    \A r \in Written :
        /\ r.next_due_date.t = "date"
        /\ IsAdvanced(req.d.last_service_date.v, req.d.interval_months.v, r.next_due_date.v)
        /\ (req.d.interval_months.v = 12 =>
                /\ MonthOf(r.next_due_date.v) = MonthOf(req.d.last_service_date.v)
                /\ YearOf(r.next_due_date.v) = YearOf(req.d.last_service_date.v) + 1)

C1_Examples ==
    \A r \in Written :
        /\ (req.d.last_service_date = DateStr(2024, 1, 31) /\ req.d.interval_months = IntV(1)
                => r.next_due_date = StoredDate(2024, 2, 29))
        /\ (req.d.last_service_date = DateStr(2023, 1, 31) /\ req.d.interval_months = IntV(1)
                => r.next_due_date = StoredDate(2023, 2, 28))
        /\ (req.d.last_service_date = DateStr(2024, 11, 30) /\ req.d.interval_months = IntV(3)
                => r.next_due_date = StoredDate(2025, 2, 28))

\* C1 as stated: for every valid last_service_date and every interval_months
\* >= 1 the next_due_date derived by create-schedule and by update-schedule
\* is a valid calendar date equal to the reference (month index wrapped
\* modulo 12 with carry into the year, day clamped to the month's last day
\* under the Gregorian leap rule).
C1_Original == C1_Derives => C1_IsReference

\* C1 amended: the derived next_due_date equals the reference whenever the
\* reference lands in a year up to 9999; past that year create-schedule
\* stores no next_due_date.  The three dated examples hold.
C1_NextDueDateIsReference ==
    C1_Derives =>
        /\ RefTargetYear(req.d.last_service_date.v, req.d.interval_months.v) <= 9999
                => C1_IsReference
        /\ RefTargetYear(req.d.last_service_date.v, req.d.interval_months.v) > 9999
                => \A r \in Created : req.op = "add_schedule" => r.next_due_date = Null
        /\ C1_Examples

C1_Witness ==
    /\ C1_Derives
    /\ req.op = "update_schedule"
    /\ req.d.last_service_date = DateStr(2024, 1, 31)
    /\ req.d.interval_months = IntV(1)
    /\ \E r \in Updated : r.next_due_date = StoredDate(2024, 2, 29)

(***************************************************************************)
(* C2                                                                      *)
(***************************************************************************)
\* C2 as stated: create-schedule without an explicit override stores
\* next_due_date = addMonthsClamped(last_service_date, interval_months) when
\* both are present and null when either is absent; 2024-01-15 with 12
\* months stores 2025-01-15, and a body with only interval_km = 15000 and
\* last_service_mileage = 50000 stores next_due_mileage 65000 and no date.
C2_CreateDerivesWhenPresent ==
    ( /\ Succeeded("add_schedule")
      /\ ~Present(req.d.next_due_date)
      /\ ~Present(req.d.next_due_mileage) )
    => \A r \in Created :
        /\ (Present(req.d.last_service_date) /\ Present(req.d.interval_months))
              => /\ r.next_due_date.t = "date"
                 /\ IsAdvanced(req.d.last_service_date.v, req.d.interval_months.v,
                               r.next_due_date.v)
        /\ ~(Present(req.d.last_service_date) /\ Present(req.d.interval_months))
              => r.next_due_date = Null
        /\ (req.d.last_service_date = DateStr(2024, 1, 15) /\ req.d.interval_months = IntV(12))
              => r.next_due_date = StoredDate(2025, 1, 15)
        /\ ( /\ req.d.interval_km = IntV(15000)
             /\ req.d.last_service_mileage = IntV(50000)
             /\ ~Present(req.d.last_service_date)
             /\ ~Present(req.d.interval_months) )
              => r.next_due_mileage = IntV(65000) /\ r.next_due_date = Null

(***************************************************************************)
(* C3                                                                      *)
(***************************************************************************)
\* C3 as stated: the mileage axis is gated on presence, not on value: for
\* every present last_service_mileage >= 0 (0 included) and every present
\* interval_km, create-schedule without an override stores next_due_mileage
\* = last_service_mileage + interval_km, and next_due_mileage is null only
\* when one of the two is absent.
C3_MileageGatedOnPresence ==
    ( /\ Succeeded("add_schedule")
      /\ ~Present(req.d.next_due_mileage) )
    => \A r \in Created :
        /\ (IsIntFrom(req.d.last_service_mileage, 0) /\ IsIntFrom(req.d.interval_km, 0))
              => r.next_due_mileage
                   = IntV(req.d.last_service_mileage.v + req.d.interval_km.v)
        /\ r.next_due_mileage = Null
              => (~Present(req.d.last_service_mileage) \/ ~Present(req.d.interval_km))

(***************************************************************************)
(* C4                                                                      *)
(***************************************************************************)
\* both axes of the body are derivable and an override is supplied for one
C4_OverrideWithDerivable ==
    /\ Succeeded("add_schedule")
    /\ \/ /\ IsDateValue(req.d.next_due_date)
          /\ IsDateValue(req.d.last_service_date)
          /\ IsIntFrom(req.d.interval_months, 1)
       \/ /\ IsIntFrom(req.d.next_due_mileage, 1)
          /\ IsIntFrom(req.d.last_service_mileage, 1)
          /\ IsIntFrom(req.d.interval_km, 1)

C5_UpdateOverrideWins ==
    Succeeded("update_schedule") =>
        \A r \in Updated :
            /\ ( /\ IsDateValue(req.d.next_due_date)
                 /\ IsDateValue(req.d.last_service_date)
                 /\ IsIntFrom(req.d.interval_months, 1) )
                  => r.next_due_date = V("date", req.d.next_due_date.v)
            /\ ( /\ IsIntFrom(req.d.next_due_mileage, 0)
                 /\ IsIntFrom(req.d.last_service_mileage, 1)
                 /\ IsIntFrom(req.d.interval_km, 1) )
                  => r.next_due_mileage = req.d.next_due_mileage

(***************************************************************************)
(* C6                                                                      *)
(***************************************************************************)
\* C6 as stated: update-schedule re-derives from the merged (stored +
\* incoming) fields: an update that supplies only interval_km = K, no
\* override, on a schedule whose stored last_service_mileage is L leaves
\* next_due_mileage = L + K; an update that supplies only interval_months or
\* only last_service_date leaves next_due_date = addMonthsClamped of the
\* merged last_service_date and interval_months.
C6_UpdateDerivesFromMerged ==
    ( /\ Succeeded("update_schedule")
      /\ ~Present(req.d.next_due_date)
      /\ ~Present(req.d.next_due_mileage) )
    => \A r \in Updated :
        /\ ( /\ IsIntFrom(req.d.interval_km, 1)
             /\ ~Has(req.d.last_service_mileage)
             /\ IsIntFrom(r.last_service_mileage, 1) )
              => r.next_due_mileage = IntV(r.last_service_mileage.v + req.d.interval_km.v)
        /\ ( /\ Has(req.d.interval_months) # Has(req.d.last_service_date)
             /\ IsIntFrom(r.interval_months, 1)
             /\ r.last_service_date.t = "date"
             /\ RefTargetYear(r.last_service_date.v, r.interval_months.v) <= 9999 )
              => /\ r.next_due_date.t = "date"
                 /\ IsAdvanced(r.last_service_date.v, r.interval_months.v, r.next_due_date.v)

(***************************************************************************)
(* C7                                                                      *)
(***************************************************************************)
\* the value is there and is not what its field takes
Malformed(x, isDate) ==
    /\ Present(x)
    /\ IF isDate THEN ~IsDateValue(x) ELSE x.t \notin {"int", "numstr"}

\* C7 as stated: a create-schedule request with a non-empty kind and a
\* non-numeric interval_months, interval_km or last_service_mileage, or a
\* malformed last_service_date, does not end in an error: the axis is taken
\* as absent and the schedule is stored with a null derived value for it.
C7_MalformedInputStored ==
    ( /\ req.op = "add_schedule"
      /\ session # NoUser
      /\ req.d.kind \in {Oil, PadText(1)}
      /\ ~Present(req.d.vehicle_id) )
    => /\ ( \/ Malformed(req.d.interval_months, FALSE)
            \/ Malformed(req.d.last_service_date, TRUE) )
          => /\ resp.status = 200
             /\ \A r \in Created : r.next_due_date = Null
       /\ ( \/ Malformed(req.d.interval_km, FALSE)
            \/ Malformed(req.d.last_service_mileage, FALSE) )
          => /\ resp.status = 200
             /\ \A r \in Created : r.next_due_mileage = Null

(***************************************************************************)
(* C9                                                                      *)
(***************************************************************************)
\* C9 as stated: an update-schedule request whose kind is empty is rejected
\* with a validation error and leaves the stored schedule unchanged, so
\* every stored schedule has a non-empty kind.
C9_StoredKindNonEmpty ==
    /\ \A r \in schedules : r.kind # EmptyStr
    /\ ( /\ req.op = "update_schedule"
         /\ session # NoUser
         /\ Updated # {}
         /\ req.d.kind = EmptyStr )
       => resp.status = 400

(***************************************************************************)
(* C10                                                                     *)
(***************************************************************************)
\* C10 as stated: create-schedule and update-schedule, on success, both
\* return the stored schedule record with its derived next_due_date and
\* next_due_mileage as persisted after the request.
C10_Original ==
    /\ Succeeded("add_schedule") => (Created # {} /\ resp.rows = Created)
    /\ (Succeeded("update_schedule") /\ Updated # {}) => resp.rows = Updated

\* C10 amended: create-schedule, on success, returns the stored schedule
\* record with its derived fields as persisted; update-schedule, on
\* success, returns only the acknowledgement {"ok": true} and no record.
C10_CreateReturnsStoredRecord ==
    /\ Succeeded("add_schedule") => (Created # {} /\ resp.rows = Created)
    /\ Succeeded("update_schedule") => resp.rows = {}

C10_Witness ==
    /\ Succeeded("add_schedule")
    /\ resp.rows = Created
    /\ \E r \in Created : r.next_due_date.t = "date" \/ r.next_due_mileage.t = "int"

(***************************************************************************)
(* C8                                                                      *)
(***************************************************************************)
\* the required field is missing, empty or whitespace only
IsBlank(x) == x.t \in {"absent", "null", "emptystr", "blankstr"}

IsNumeric(x) == x.t \in {"int", "numstr"}

\* the request just served was refused with that reason and wrote nothing
C8_Rejected(reason) ==
    /\ resp'.status = 400
    /\ resp'.error = reason
    /\ UNCHANGED store

C8_OtherHandlers ==
    /\ (req'.op = "add_schedule" /\ IsBlank(req'.d.kind))
          => C8_Rejected("kind_required")
    /\ (req'.op = "add_reminder" /\ IsBlank(req'.d.title))
          => C8_Rejected("title_required")
    /\ (req'.op = "add_vehicle" /\ (IsBlank(req'.d.make) \/ IsBlank(req'.d.model)))
          => C8_Rejected("missing_fields")

RefOnOrBefore(a, b) ==
    \/ YearOf(a) < YearOf(b)
    \/ YearOf(a) = YearOf(b) /\ MonthOf(a) < MonthOf(b)
    \/ YearOf(a) = YearOf(b) /\ MonthOf(a) = MonthOf(b) /\ DayOf(a) <= DayOf(b)

C11_IsDueIffDateReached ==
    Succeeded("list_reminders")
        => \A i \in DOMAIN resp.rows :
              LET e == resp.rows[i]
              IN  /\ e.is_due <=> (e.row.due_date.t # "null"
                                   /\ RefOnOrBefore(e.row.due_date.v, Today.v))
                  /\ e.row.due_date.t = "null" => ~e.is_due

\* a reminder due today, with a due_mileage, is listed as due
C11_Witness ==
    /\ Succeeded("list_reminders")
    /\ \E i \in DOMAIN resp.rows :
          /\ resp.rows[i].row.due_date = ColDate(Today)
          /\ resp.rows[i].row.due_mileage = IntV(1000)
          /\ resp.rows[i].is_due

(***************************************************************************)
(* The records the statistics of the requesting user are taken over.       *)
(***************************************************************************)
\* the vehicle belongs to the requesting user
RefOwns(vid) == \E v \in vehicles : v.id = vid /\ v.owner_id = session

UserEntries == {e \in entries : RefOwns(e.vehicle_id)}

UserFuelLogs == {f \in fuel_logs : RefOwns(f.vehicle_id)}

\* an amount, null counting as 0
RefAmount(x) == IF x.t = "null" THEN 0 ELSE x.v

\* what the user spent on date n for the vehicles in vids
RefServiceCost(n, vids) ==
    SumOf([e \in {x \in UserEntries : x.date.v = n /\ x.vehicle_id \in vids} |-> RefAmount(e.cost)])

RefFuelCost(n, vids) ==
    SumOf([f \in {x \in UserFuelLogs : x.date.v = n /\ x.vehicle_id \in vids} |-> RefAmount(f.total_cost)])

RefVehicleIds == {v.id : v \in vehicles}

RefDates == {e.date.v : e \in UserEntries} \cup {f.date.v : f \in UserFuelLogs}

\* the sum of the total_cost of the elements of a list
RefListTotal(rows) == SumOf([i \in DOMAIN rows |-> rows[i].total_cost])

RefRowsTotal(rows) == SumOf([r \in rows |-> r.total_cost])

RefMileages == {e.mileage.v : e \in {x \in UserEntries : x.mileage.t # "null"}}

\* the largest distance between two numbers of S, 0 for the empty set
RefSpread(S) ==
    IF S = {} THEN 0
    ELSE LET hi == CHOOSE x \in S : \A y \in S : y <= x
             lo == CHOOSE x \in S : \A y \in S : x <= y
         IN  IF hi - lo > 0 THEN hi - lo ELSE 0

C15_KmIsFleetWideSpread ==
    Succeeded("stats")
        => LET tco == resp.rows.tco
           IN  /\ tco.km = RefSpread(RefMileages)
               /\ tco.km > 0 => tco.cost_per_km = Quot(tco.total_cost, tco.km)
               /\ tco.km = 0 => tco.cost_per_km = Null

\* mileages of two vehicles, beside an entry without one
C15_Witness ==
    /\ Succeeded("stats")
    /\ resp.rows.tco.km = 4000
    /\ resp.rows.tco.cost_per_km.t = "quot"
    /\ \E e \in UserEntries : e.mileage.t = "null"
    /\ \E e, f \in UserEntries :
          e.vehicle_id # f.vehicle_id /\ e.mileage.t # "null" /\ f.mileage.t # "null"

(***************************************************************************)
(* C16: tco.months is max(1, (today.year - d0.year) * 12 + (today.month -  *)
(* d0.month)) for d0 the earliest date of the user's service entries, so   *)
(* at least 1 whenever there is an entry, also when d0 lies in the current *)
(* month or later; it is 0 when there is none.  tco.cost_per_month is      *)
(* total_cost / months when months > 0 and null otherwise.                 *)
(***************************************************************************)
RefEntryDates == {e.date.v : e \in UserEntries}

RefEarliest == CHOOSE n \in RefEntryDates : \A m \in RefEntryDates : RefOnOrBefore(n, m)

RefWholeMonths == RefMonthCount(Today.v) - RefMonthCount(RefEarliest)

C16_MonthsAtLeastOne ==
    Succeeded("stats")
        => LET tco == resp.rows.tco
           IN  /\ RefEntryDates # {}
                    => /\ tco.months = (IF RefWholeMonths > 1 THEN RefWholeMonths ELSE 1)
                       /\ tco.months >= 1
               /\ RefEntryDates = {} => tco.months = 0
               /\ tco.months > 0 => tco.cost_per_month = Quot(tco.total_cost, tco.months)
               /\ tco.months = 0 => tco.cost_per_month = Null

\* the earliest entry is dated after today
C16_Witness ==
    /\ Succeeded("stats")
    /\ RefEntryDates # {}
    /\ ~RefOnOrBefore(RefEarliest, Today.v)
    /\ resp.rows.tco.months = 1
    /\ resp.rows.tco.cost_per_month.t = "quot"

(***************************************************************************)
(* C17: for a user without service entries the statistics give months = 0, *)
(* cost_per_month null, km = 0 and cost_per_km null, and total_cost is the *)
(* sum of the total_cost of the user's fuel logs.                          *)
(***************************************************************************)
C17_FuelOnlyTco ==
    Succeeded("stats") /\ UserEntries = {}
        => LET tco == resp.rows.tco
           IN  /\ tco.months = 0
               /\ tco.cost_per_month = Null
               /\ tco.km = 0
               /\ tco.cost_per_km = Null
               /\ tco.total_cost = SumOf([f \in UserFuelLogs |-> RefAmount(f.total_cost)])

\* fuel logs and no entry of the user's, beside an entry of another user
C17_Witness ==
    /\ Succeeded("stats")
    /\ UserEntries = {}
    /\ entries # {}
    /\ Cardinality(UserFuelLogs) >= 2
    /\ resp.rows.tco.total_cost > 0
    /\ resp.rows.tco.months = 0

(***************************************************************************)
(* C18: fuel_stats holds one row for each vehicle of the user that has a   *)
(* fuel log.  Its total_liters is the sum of the liters of all fuel logs   *)
(* of that vehicle, full_tank or not; its distance_km is max(0,            *)
(* max(odometer) - min(odometer)) over the logs of that vehicle that have  *)
(* an odometer, never those of another vehicle; its avg_l_100km is         *)
(* total_liters * 100 / distance_km when distance_km > 0 and total_liters  *)
(* > 0 and null otherwise.  Odometers 10000, 10500, 11200 with 40, 38 and  *)
(* 35 liters give distance_km = 1200 and total_liters = 113.               *)
(***************************************************************************)
RefLogsOf(vid) == {f \in UserFuelLogs : f.vehicle_id = vid}

RefOdometers(vid) == {f.odometer.v : f \in {x \in RefLogsOf(vid) : x.odometer.t # "null"}}

RefLiters(vid) == SumOf([f \in RefLogsOf(vid) |-> f.liters.v])

RefFuelVehicles == {v.id : v \in {w \in vehicles : w.owner_id = session /\ RefLogsOf(w.id) # {}}}

C18_Example ==
    \A vid \in RefFuelVehicles :
        /\ {<<f.odometer, f.liters>> : f \in RefLogsOf(vid)}
               = {<<IntV(10000), IntV(40)>>, <<IntV(10500), IntV(38)>>, <<IntV(11200), IntV(35)>>}
        => \E r \in resp.rows.fuel_stats :
              /\ r.vehicle_id = vid
              /\ r.distance_km = IntV(1200)
              /\ r.total_liters = 113
              /\ r.avg_l_100km = Quot(11300, 1200)

C18_FuelStatsPerVehicle ==
    Succeeded("stats")
        => LET fuel_stats == resp.rows.fuel_stats
           IN  /\ {r.vehicle_id : r \in fuel_stats} = RefFuelVehicles
               /\ Cardinality(fuel_stats) = Cardinality(RefFuelVehicles)
               /\ \A r \in fuel_stats :
                     LET far == RefSpread(RefOdometers(r.vehicle_id))
                     IN  /\ r.total_liters = RefLiters(r.vehicle_id)
                         /\ RefOdometers(r.vehicle_id) # {} => r.distance_km = IntV(far)
                         /\ r.avg_l_100km
                              = (IF far > 0 /\ r.total_liters > 0
                                 THEN Quot(r.total_liters * 100, far) ELSE Null)
               /\ C18_Example

\* the three fill-ups of the example, one of them not to a full tank, beside
\* another vehicle that has fill-ups with and without an odometer
C18_Witness ==
    /\ Succeeded("stats")
    /\ \E r \in resp.rows.fuel_stats :
          /\ r.distance_km = IntV(1200) /\ r.total_liters = 113
          /\ \E f \in RefLogsOf(r.vehicle_id) : ~f.full_tank
    /\ \E vid \in RefFuelVehicles :
          /\ RefOdometers(vid) = {20000}
          /\ \E f \in RefLogsOf(vid) : f.odometer.t = "null"

C20_Creates == {"add_entry", "add_fuel_log", "add_trip"}

C20_CreatesOnlyOnOwnVehicles ==
    /\ (/\ req.op \in C20_Creates
        /\ session # NoUser
        /\ IntOk(Get(req.d.vehicle_id))
        /\ ~RefOwns(IntOf(Get(req.d.vehicle_id))))
           => resp.status # 200
    /\ \A e \in entries : RefOwns(e.vehicle_id)
    /\ \A f \in fuel_logs : RefOwns(f.vehicle_id)
    /\ \A t \in trips : RefOwns(t.vehicle_id)

(***************************************************************************)
(* C21: in every reachable state each schedule and each reminder with a    *)
(* non-null vehicle_id references a vehicle owned by the user who owns the *)
(* schedule or reminder, and a create-schedule, update-schedule or         *)
(* create-reminder request naming another user's vehicle is rejected.      *)
(***************************************************************************)
C21_Links == {"add_schedule", "update_schedule", "add_reminder"}

RefOwnedBy(vid, uid) == \E v \in vehicles : v.id = vid /\ v.owner_id = uid

C21_LinkedVehiclesAreOwn ==
    /\ \A s \in schedules : s.vehicle_id.t # "null" => RefOwnedBy(s.vehicle_id.v, s.user_id)
    /\ \A r \in reminders : r.vehicle_id.t # "null" => RefOwnedBy(r.vehicle_id.v, r.user_id)
    /\ (/\ req.op \in C21_Links
        /\ session # NoUser
        /\ IntOk(Get(req.d.vehicle_id))
        /\ \E v \in vehicles : v.id = IntOf(Get(req.d.vehicle_id)) /\ v.owner_id # session)
           => resp.status # 200

(***************************************************************************)
(* C22: an update or delete request that targets a vehicle, service entry, *)
(* reminder, schedule, fuel log or trip not owned by the requesting user   *)
(* leaves that record and every other record of the store unchanged, and   *)
(* is answered with a forbidden or not-found outcome, not with success.    *)
(***************************************************************************)
\* the table a request addresses by id
RefTable(op) ==
    CASE op = "delete_vehicle" -> vehicles
      [] op \in {"update_entry", "delete_entry"} -> entries
      [] op \in {"update_reminder", "delete_reminder"} -> reminders
      [] op \in {"update_schedule", "delete_schedule"} -> schedules
      [] op = "delete_fuel_log" -> fuel_logs
      [] op = "delete_trip" -> trips
      [] OTHER -> {}

\* the user a record belongs to: a service entry to the owner of its vehicle
RefRecordOwner(op, r) ==
    CASE op = "delete_vehicle" -> r.owner_id
      [] op \in {"update_entry", "delete_entry"} -> OwnerOf(r.vehicle_id)
      [] OTHER -> r.user_id

\* the request targets a record of the store that is not the requester's
RefTargetsForeign(rq) ==
    /\ session # NoUser
    /\ \E r \in RefTable(rq.op) : r.id = rq.id /\ RefRecordOwner(rq.op, r) # session

C22_ForeignTargetRefused ==
    [][RefTargetsForeign(req')
         => /\ UNCHANGED store
            /\ resp'.status \in {403, 404}]_vars

(***************************************************************************)
(* C22 as the handlers have it: such a request leaves every record of the  *)
(* store unchanged and is never answered forbidden or not-found; a delete  *)
(* is answered ok (200) as if it had removed a record, an update is        *)
(* answered ok or with the error its body causes for any target.           *)
(***************************************************************************)
C22_Deletes == {"delete_vehicle", "delete_entry", "delete_reminder", "delete_schedule",
                "delete_fuel_log", "delete_trip"}

C22_ForeignTargetUntouched ==
    [][RefTargetsForeign(req')
         => /\ UNCHANGED store
            /\ resp'.status \in {200, 500}
            /\ req'.op \in C22_Deletes => resp'.status = 200]_vars

C22_Witness ==
    /\ session = 1
    /\ req.op = "delete_vehicle"
    /\ req.id = 2
    /\ resp.status = 200
    /\ \E v \in vehicles : v.id = 2 /\ v.owner_id = 2

(***************************************************************************)
(* C23: in every reachable state every service entry, fuel log and trip    *)
(* references an existing vehicle and every schedule and reminder has a    *)
(* null vehicle_id or one that references an existing vehicle; a request   *)
(* that deletes a vehicle removes the vehicle and exactly the entries,     *)
(* fuel logs, trips, schedules and reminders tied to it.                   *)
(***************************************************************************)
RefVehicleExists(vid) == \E v \in vehicles : v.id = vid

RefIntegrity ==
    /\ \A r \in entries \cup fuel_logs \cup trips : RefVehicleExists(r.vehicle_id)
    /\ \A r \in schedules \cup reminders :
          r.vehicle_id.t = "null" \/ RefVehicleExists(r.vehicle_id.v)

\* the rows of a table that are not tied to the vehicle vid
RefNotTiedTo(rows, vid) == {r \in rows : r.vehicle_id # vid}

\* the same for a table whose vehicle_id may be null
RefNotLinkedTo(rows, vid) == {r \in rows : r.vehicle_id # IntV(vid)}

RefDeletesOwnVehicle(rq) ==
    /\ rq.op = "delete_vehicle"
    /\ \E v \in vehicles : v.id = rq.id /\ v.owner_id = session

C23_VehicleDeletionCascades ==
    /\ []RefIntegrity
    /\ [][RefDeletesOwnVehicle(req')
            => /\ vehicles' = {v \in vehicles : v.id # req'.id}
               /\ entries' = RefNotTiedTo(entries, req'.id)
               /\ fuel_logs' = RefNotTiedTo(fuel_logs, req'.id)
               /\ trips' = RefNotTiedTo(trips, req'.id)
               /\ schedules' = RefNotLinkedTo(schedules, req'.id)
               /\ reminders' = RefNotLinkedTo(reminders, req'.id)]_vars

C23_Witness ==
    /\ req.op = "delete_vehicle"
    /\ req.id = 1
    /\ session = 1
    /\ ~RefVehicleExists(1)
    /\ \E r \in schedules : r.user_id = 1 /\ r.vehicle_id = IntV(2)
    /\ Cardinality(entries) = 1 /\ Cardinality(fuel_logs) = 1 /\ Cardinality(trips) = 1
    /\ Cardinality(reminders) = 1

(***************************************************************************)
(* C24: when no request supplies an explicit next_due_date or              *)
(* next_due_mileage, every stored schedule has a null next_due_date        *)
(* whenever its stored last_service_date or interval_months is null, and a *)
(* null next_due_mileage whenever its stored last_service_mileage or       *)
(* interval_km is null.                                                    *)
(***************************************************************************)
C24_NoStaleNextDue ==
    \A s \in schedules :
        /\ (s.last_service_date.t = "null" \/ s.interval_months.t = "null")
              => s.next_due_date.t = "null"
        /\ (s.last_service_mileage.t = "null" \/ s.interval_km.t = "null")
              => s.next_due_mileage.t = "null"

(***************************************************************************)
(* C25: a service entry created without a mileage value does not take part *)
(* in the fleet distance: the request that creates it leaves the km and    *)
(* cost_per_km a statistics read reports, and the last_mileage of every    *)
(* vehicle, as they were before it.  Stated for an entry that carries no   *)
(* cost either, so that total_cost stays as it was.                        *)
(***************************************************************************)
RefCreatesWithoutMileage(rq, rs) ==
    /\ rq.op = "add_entry"
    /\ rs.status = 200
    /\ Get(rq.d.mileage).t = "null"
    /\ Get(rq.d.cost).t = "null"

C25_NoMileageNoDistance ==
    [][RefCreatesWithoutMileage(req', resp')
         => /\ Km' = Km
            /\ CostPerKm' = CostPerKm
            /\ LastMileage' = LastMileage]_vars

(***************************************************************************)
(* C27: every stored service entry has a non-empty service_type, and an    *)
(* update-entry request that sets service_type to an empty string is       *)
(* answered with a validation error.                                       *)
(***************************************************************************)
C27_ServiceTypeNeverEmpty ==
    /\ \A e \in entries : e.service_type.t \notin {"null", "emptystr"}
    /\ (/\ req.op = "update_entry"
        /\ session # NoUser
        /\ \E e \in entries : e.id = req.id
        /\ req.d.service_type = EmptyStr)
           => resp.status = 400

(***************************************************************************)
(* C26: the read requests (the six lists and the statistics) leave every   *)
(* stored record unchanged; no stored reminder carries is_due; and the     *)
(* schedules list answers with the requesting user's schedules exactly as  *)
(* stored, next_due_date and next_due_mileage included.                    *)
(***************************************************************************)
C26_Reads == {"list_vehicles", "list_entries", "list_reminders", "list_schedules",
              "list_fuel_logs", "list_trips", "stats"}

RefRowsOf(rows) == {rows[i] : i \in DOMAIN rows}

C26_ReadsNeverWrite ==
    [][req'.op \in C26_Reads
         => /\ UNCHANGED store
            /\ \A r \in reminders' : "is_due" \notin DOMAIN r
            /\ (req'.op = "list_schedules" /\ resp'.status = 200)
                  => /\ RefRowsOf(resp'.rows) = {r \in schedules : r.user_id = session}
                     /\ Len(resp'.rows) = Cardinality(RefRowsOf(resp'.rows))]_vars

C26_Witness ==
    /\ req.op = "list_schedules"
    /\ resp.status = 200
    /\ \E i \in DOMAIN resp.rows :
          /\ resp.rows[i].interval_km = Null
          /\ resp.rows[i].next_due_mileage = IntV(70000)

(***************************************************************************)
(* C28: a statistics response is consistent in itself also when another    *)
(* request of the same user inserts, updates or deletes a service entry or *)
(* a fuel log while it is computed: the sum of by_day.total_cost, the      *)
(* tco.total_cost and the sum of daily_vehicle_costs.total_cost are equal. *)
(***************************************************************************)
C28_RacingStatsConsistent ==
    Succeeded("stats")
        => /\ RefListTotal(resp.rows.by_day) = resp.rows.tco.total_cost
           /\ RefRowsTotal(resp.rows.daily_vehicle_costs) = resp.rows.tco.total_cost

(***************************************************************************)
(* C29: while the session carries no user every request other than         *)
(* register and login is answered auth_required (401) and changes neither  *)
(* the store nor the session; a logout leaves the session without a user,  *)
(* which only a successful login ends; and a login with an unknown email   *)
(* or a wrong password is answered invalid_credentials and leaves the      *)
(* session as it was.                                                      *)
(***************************************************************************)
C29_Open == {"register", "login"}

\* the account a login names, by the email trimmed and in lower case
RefAccounts(d) ==
    {u \in users : IsStr(d.email) /\ u.email = Lower(Strip(d.email))}

\* a login of well-formed texts that names no account or the wrong password
RefBadLogin(d) ==
    /\ IsStr(d.email) /\ IsStr(d.password)
    /\ \A u \in RefAccounts(d) : u.password_hash # generate_password_hash(d.password)

C29_SessionGate ==
    [][/\ (session = NoUser /\ req'.op \notin C29_Open)
           => /\ resp'.status = 401
              /\ resp'.error = "auth_required"
              /\ UNCHANGED <<session, store>>
       /\ (session # NoUser /\ req'.op = "logout") => session' = NoUser
       /\ session' # session
           => \/ req'.op = "logout"
              \/ /\ req'.op = "login"
                 /\ resp'.status = 200
                 /\ \E u \in RefAccounts(req'.d) :
                       /\ u.id = session'
                       /\ u.password_hash = generate_password_hash(req'.d.password)
       /\ (req'.op = "login" /\ RefBadLogin(req'.d))
           => /\ resp'.status = 401
              /\ resp'.error = "invalid_credentials"
              /\ UNCHANGED <<session, store>>]_vars

C29_Witness ==
    /\ session = NoUser
    /\ steps = 2
    /\ req.op = "delete_vehicle"
    /\ resp.error = "auth_required"
    /\ vehicles # {}

(***************************************************************************)
(* C30: no two stored users have the same email after trimming and         *)
(* lower-casing; a register request whose normalized email is in use is    *)
(* answered email_in_use, one with an empty email, name or password is     *)
(* answered missing_fields, and neither adds a user.                       *)
(***************************************************************************)
\* trimming and lower-casing, the same whichever comes first
RefNormalized(x) == Strip(Lower(x))

\* an absent, null, empty or blank text
RefEmpty(x) == Get(x).t = "null" \/ (IsStr(x) /\ Strip(x) = EmptyStr)

\* a value the handler takes as a text: a string, or nothing
RefTextual(x) == Get(x).t = "null" \/ IsStr(x)

RefInUse(email) ==
    /\ IsStr(email)
    /\ \E u \in users : RefNormalized(u.email) = RefNormalized(email)

C30_UniqueEmails ==
    [][/\ \A u, w \in users' : RefNormalized(u.email) = RefNormalized(w.email) => u = w
       /\ req'.op = "register"
           => /\ RefInUse(req'.d.email) => users' = users
              /\ (/\ RefInUse(req'.d.email)
                  /\ IsStr(req'.d.name) /\ ~RefEmpty(req'.d.name)
                  /\ IsStr(req'.d.password) /\ req'.d.password # EmptyStr)
                    => resp'.status = 400 /\ resp'.error = "email_in_use"
              /\ (/\ RefTextual(req'.d.email) /\ RefTextual(req'.d.name)
                  /\ \/ RefEmpty(req'.d.email)
                     \/ RefEmpty(req'.d.name)
                     \/ Get(req'.d.password).t = "null"
                     \/ req'.d.password = EmptyStr)
                    => /\ resp'.status = 400
                       /\ resp'.error = "missing_fields"
                       /\ users' = users]_vars

C30_Witness ==
    /\ req.op = "register"
    /\ req.d.email = PadUpText(1)
    /\ resp.error = "email_in_use"
    /\ Cardinality(users) = 1

====
